---- MODULE Spec2Model ----
(***************************************************************************)
(* Model of the odds ingestion and two-way arbitrage pipeline of the       *)
(* arbitrage-betting-platform repository.                                  *)
(*                                                                         *)
(*   SpecMatcher : lib/arbitrage.ts findTwoWayArbs on bounded leg lists    *)
(*   SpecMath    : roiPct and stakeSplit on bounded prices and capital     *)
(*   SpecIngest  : lib/ingest.ts ingestNormalizedEvents, called again and  *)
(*                 again on bounded lists of normalized events             *)
(*   SpecQuery   : ingest cycles, each followed by queries of              *)
(*                 app/api/opportunities/route.ts                          *)
(*   SpecFresh   : ingest cycles while time passes, each followed by       *)
(*                 queries with a freshness window, a book list and a      *)
(*                 minimum roi                                             *)
(*   SpecBatch   : app/api/ingest-all/route.ts POST, one run after the     *)
(*                 other in one process, one combination per run           *)
(*   SpecPool    : the same handler serving a request for three            *)
(*                 combinations in a process whose caches are still empty  *)
(*   SpecQueue   : the same run under the fairness of the event loop       *)
(*   SpecWindow  : the same handler served by a provider that returns      *)
(*                 events outside the window                               *)
(*   SpecAdapter : lib/oddsAdapters/theOddsApi.ts, the normalization of a  *)
(*                 provider response, and the write of its result          *)
(*   SpecHash    : the change-detection hashes of two fetches              *)
(*   SpecRace    : concurrent calls of getOrCreateEventAndMarket           *)
(*                                                                         *)
(* JavaScript numbers are modelled exactly: a price is a tagged value,     *)
(* <<"num", n>> for the finite decimal n/100, <<"inf", 0>> for Infinity    *)
(* and <<"nan", 0>> for NaN; computed results are exact rationals          *)
(* [n |-> numerator, d |-> denominator] with d > 0.  IEEE-754 rounding is  *)
(* not modelled.  Times are whole seconds.  A call of the repository write *)
(* is one step: it either raises before it writes or runs to its end, its  *)
(* Prisma calls succeeding except those on the fingerprint table, which    *)
(* may raise and are caught.  The lastSeenAt column is followed in         *)
(* SpecFresh only.  The clock stands still while a batch run is being      *)
(* served.                                                                 *)
(***************************************************************************)
EXTENDS Integers, Sequences, FiniteSets, TLC

VARIABLES
    legs,       \* matcher: the ArbLeg[] argument of findTwoWayArbs
    pairs,      \* matcher: the ArbPair[] it returned
    chosen,     \* matcher: per group, the [0] element of each side's sort
    mpc,        \* matcher: "ready" before the call, "done" after
    pick,       \* matcher: position that resolves an implementation-defined sort
    priceA,     \* math: decimal odds a
    priceB,     \* math: decimal odds b
    target,     \* math: total stake (capital)
    roiResult,  \* math: what roiPct(a, b) returned
    split,      \* math: what stakeSplit(target, a, b) returned
    calc,       \* math: the StakeSplit component's calc object
    called,     \* math: the functions called so far
    db,         \* storage: the Prisma tables
    ipc,        \* ingest: "idle" before the first call, "called" after
    ingested,   \* ingest: the events argument of the last call
    ingestResult, \* ingest: { eventsTouched, oddsWritten } of the last call
    fpWorked,   \* ingest: no fingerprint lookup or upsert raised in the last call
    oddsChanged, \* ingest: the last call changed the stored odds rows
    repeated,   \* ingest: the call before had the same argument and a working
                \*         fingerprint store
    prevWrote,  \* ingest: the call before wrote odds
    dbAll,      \* ingest: the tables had every call written every event
    query,      \* query: the books parameter of the last query, the
                \*        opportunities it returned and those it would have
                \*        returned from dbAll
    lastSeenAt, \* fresh: per stored odds row (by its unique key), the time of
                \*        the upsert that last wrote it
    page,       \* fresh: the parameters of the last query and what it
                \*        returned
    raw,        \* adapter: the events of the provider's response
    normalized, \* adapter: the NormalizedEvent[] fetchTheOddsApi returned
    hashed,     \* hash: two events and the hashes the repository write and
                \*       the scheduler compute for them
    writers,    \* race: per concurrent call of getOrCreateEventAndMarket,
                \*       where it stands and what its findFirst returned
    rowsById,   \* race: the Event and Market rows, each with its own id
    checked,    \* precheck: a fetched event, whether the scheduler's filters
                \*           kept it and the pairs the matcher finds in it
    calledAt,   \* gate: per sport, the time of the last call of the adapter
                \*       for its combination, 0 before the first
    runs,       \* overlap: per request of two that are served at once, where
                \*          it stands, its parameters, when it passed the TTL
                \*          gate and what the gate queued and skipped
    limiter,    \* limit: the clock, the buckets of the rate limiter, the
                \*        requests it let through and its last answer
    cache,      \* cache: the entries of the response cache of the query,
                \*        and the last request with the response it got
    faults,     \* faults: whether the fingerprint lookup and the fingerprint
                \*         upserts of the last call worked
    clock,      \* batch: Date.now(), in seconds
    lastFetchAtByCombo,  \* batch: time a combination last passed the TTL gate
    lastOddsHashByEvent, \* batch: best-price hash per stableId
    lastPass,   \* batch: per sport, when a run last queued its combination
                \*        and when a run with ttlSeconds > 0 last did
    bpc,        \* batch: "idle", "probe" (awaiting ensureDb) or "running"
    req,        \* batch: the parameters of the request being served
    fromT,      \* batch: now, the start of the window of the run
    queue,      \* batch: the sports whose task waits in the p-limit queue
    tasks,      \* batch: per sport, where its task stands
    details,    \* batch: the detail rows pushed so far
    errors,     \* batch: the errors pushed so far
    totalEvents, \* batch
    totalOdds,  \* batch
    outOfCredits, \* batch
    response,   \* batch: status, ok and summary.stoppedEarly of the response,
                \*        status 0 before it is sent
    fetched,    \* batch: the sports fetchTheOddsApi was called for in this run
    received,   \* batch: per sport, the events the fetch returned in this run
    unchanged,  \* batch: per sport, the events the hash guard found unchanged
    passed,     \* batch: per sport, the events passed to ingestNormalizedEvents
    prevRun     \* batch: status, dryRun, window start and received of the run
                \*        before

matcherVars == <<legs, pairs, chosen, mpc, pick>>

mathVars == <<priceA, priceB, target, roiResult, split, calc, called>>

storageVars == <<db>>

adapterVars == <<raw, normalized>>

\* what the specifications of single components follow besides the tables
raceVars == <<writers, rowsById>>

\* what the specifications of single faults and races follow
lateVars == <<faults, checked, calledAt, runs, limiter, cache>>

sideVars == <<adapterVars, hashed, raceVars, lateVars>>

ingestVars ==
    <<ipc, ingested, ingestResult, fpWorked, oddsChanged, repeated, prevWrote,
      dbAll, query, lastSeenAt, page, sideVars>>

\* what lives as long as the process
cacheVars == <<clock, lastFetchAtByCombo, lastOddsHashByEvent, lastPass>>

\* what one run of the batch trigger holds
runVars ==
    <<bpc, req, fromT, queue, tasks, details, errors, totalEvents, totalOdds,
      outOfCredits, response, fetched, received, unchanged, passed, prevRun>>

batchVars == <<cacheVars, runVars>>

vars == <<matcherVars, mathVars, storageVars, ingestVars, batchVars>>

-----------------------------------------------------------------------------
(* Bounds *)

MaxLegs == 4

\* longest list of events passed to ingestNormalizedEvents
MaxEvents == 2

\* longest list of events the provider returns for one fetch
MaxPayload == 1

\* number of times the clock advances
MaxTicks == 1

\* number of times the clock advances between ingest cycles and queries
MaxAge == 2

\* most outcomes of a provider market
MaxOutcomes == 2

\* most lines of an event whose hash is computed
MaxLines == 2

\* number of concurrent calls of getOrCreateEventAndMarket for one fixture
MaxWriters == 3

-----------------------------------------------------------------------------
(* JavaScript values *)

Num(n) == <<"num", n>>

PosInf == <<"inf", 0>>

NaN == <<"nan", 0>>

Undefined == <<"undefined", 0>>

IsNum(v) == v[1] = "num"

IsNaN(v) == v[1] = "nan"

\* typeof v === "number": NaN and Infinity are numbers, undefined is not
TypeofNumber(v) == v[1] \in {"num", "inf", "nan"}

\* isFinite(v)
IsFinite(v) == v[1] = "num"

\* !v for a number: true for 0 and NaN
Falsy(v) == IsNaN(v) \/ v = Undefined \/ (IsNum(v) /\ v[2] = 0)

\* v <= 0 (false whenever NaN is involved)
LeqZero(v) == IsNum(v) /\ v[2] <= 0

\* x < y on JavaScript numbers; every comparison with NaN is false
JsLess(x, y) ==
    CASE IsNaN(x) \/ IsNaN(y) -> FALSE
      [] IsNum(x) /\ IsNum(y) -> x[2] < y[2]
      [] IsNum(x) /\ y = PosInf -> TRUE
      [] OTHER -> FALSE

\* l1 === l2 on numbers: NaN is not equal to itself
StrictEq(x, y) == ~IsNaN(x) /\ ~IsNaN(y) /\ x = y

\* String(v): distinct numbers print as distinct digit strings, undefined
\* and NaN print as the words "undefined" and "NaN"
JsString(v) ==
    CASE v = Undefined -> <<"undefined", 0>>
      [] IsNaN(v) -> <<"NaN", 0>>
      [] v = PosInf -> <<"Infinity", 0>>
      [] OTHER -> <<"digits", v[2]>>

-----------------------------------------------------------------------------
(* Exact rationals standing for the results of /, + and - *)

Abs(n) == IF n < 0 THEN -n ELSE n

RECURSIVE Gcd(_, _)
Gcd(a, b) == IF b = 0 THEN a ELSE Gcd(b, a % b)

\* the rational n/d for d # 0, in lowest terms with a positive denominator
Rat(n, d) ==
    LET g == Gcd(Abs(n), Abs(d))
        sign == IF d < 0 THEN -1 ELSE 1
    IN  [n |-> sign * (n \div g), d |-> sign * (d \div g)]

Zero == Rat(0, 1)

One == Rat(1, 1)

\* a finite price n/100 as a rational
ToRat(v) == Rat(v[2], 100)

RAdd(x, y) == Rat(x.n * y.d + y.n * x.d, x.d * y.d)

RSub(x, y) == Rat(x.n * y.d - y.n * x.d, x.d * y.d)

RMul(x, y) == Rat(x.n * y.n, x.d * y.d)

\* x / y for y # 0
RDiv(x, y) == Rat(x.n * y.d, x.d * y.n)

RLess(x, y) == x.n * y.d < y.n * x.d

RLeq(x, y) == x.n * y.d <= y.n * x.d

REq(x, y) == x.n * y.d = y.n * x.d

-----------------------------------------------------------------------------
(* lib/arbitrage.ts: the matcher *)

Leg(book, market, outcome, decimal, line) ==
    [book |-> book, market |-> market, outcome |-> outcome,
     decimal |-> decimal, line |-> line]

\* marks a side whose filter(...) result is empty, so that [0] is undefined
NoLeg == Leg("none", "none", "none", Undefined, Undefined)

\* a line check that compares with == and forgets the typeof tests
isExactLineMatch_Loose(market, l1, l2) ==
    IF market = "ML" THEN TRUE ELSE l1 = l2

isExactLineMatch(market, l1, l2) ==
    IF market = "ML" THEN TRUE
    ELSE TypeofNumber(l1) /\ TypeofNumber(l2) /\ StrictEq(l1, l2)

\* the ROI of the file header's comment, 1 - k, instead of 1/k - 1
calcTwoWayRoi_OneMinusK(a, b) ==
    IF Falsy(a) \/ Falsy(b) \/ LeqZero(a) \/ LeqZero(b)
       \/ ~IsFinite(a) \/ ~IsFinite(b)
    THEN Zero
    ELSE LET k == RAdd(RDiv(One, ToRat(a)), RDiv(One, ToRat(b)))
             roi == RSub(One, k)
         IN  IF RLeq(One, k) THEN Zero
             ELSE IF RLess(Zero, roi) THEN roi ELSE Zero

calcTwoWayRoi(a, b) ==
    IF Falsy(a) \/ Falsy(b) \/ LeqZero(a) \/ LeqZero(b)
       \/ ~IsFinite(a) \/ ~IsFinite(b)
    THEN Zero
    ELSE LET k == RAdd(RDiv(One, ToRat(a)), RDiv(One, ToRat(b)))
             roi == RSub(RDiv(One, k), One)
         IN  IF RLeq(One, k) THEN Zero
             ELSE IF RLess(Zero, roi) THEN roi ELSE Zero

\* const key = `${leg.market}|${lineKey}`
GroupKey(leg) ==
    <<leg.market, IF leg.market = "ML" THEN <<"ML", 0>> ELSE JsString(leg.line)>>

\* the keys of the groups Map in insertion order
RECURSIVE GroupKeys(_)
GroupKeys(ls) ==
    IF ls = <<>> THEN <<>>
    ELSE LET rest == GroupKeys(SubSeq(ls, 1, Len(ls) - 1))
             key == GroupKey(ls[Len(ls)])
         IN  IF \E i \in 1..Len(rest) : rest[i] = key THEN rest
             ELSE Append(rest, key)

FirstWithKey(ls, key) ==
    ls[CHOOSE i \in 1..Len(ls) :
          /\ GroupKey(ls[i]) = key
          /\ \A j \in 1..(i - 1) : GroupKey(ls[j]) # key]

\* one value of the groups Map: market and line of the first leg of the key
\* (line undefined for ML), and the legs of the key in input order
Group(ls, key) ==
    LET first == FirstWithKey(ls, key)
    IN  [market |-> first.market,
         line |-> IF first.market = "ML" THEN Undefined ELSE first.line,
         legs |-> SelectSeq(ls, LAMBDA l : GroupKey(l) = key)]

\* the comparator (x, y) => y.decimal - x.decimal is negative, so x goes
\* before y, exactly when x.decimal > y.decimal
Before(x, y) == JsLess(y.decimal, x.decimal)

\* stable insertion of x into a list sorted by Before
RECURSIVE InsertLeg(_, _)
InsertLeg(x, s) ==
    IF s = <<>> THEN <<x>>
    ELSE IF Before(x, Head(s)) THEN <<x>> \o s
    ELSE <<Head(s)>> \o InsertLeg(x, Tail(s))

RECURSIVE SortLegs(_)
SortLegs(s) ==
    IF s = <<>> THEN <<>>
    ELSE InsertLeg(s[Len(s)], SortLegs(SubSeq(s, 1, Len(s) - 1)))

\* groupLegs.filter(l => l.outcome === o).sort(by decimal descending)[0].
\* With a NaN decimal among the legs the comparator is not a consistent
\* ordering and the order Array.prototype.sort leaves is implementation
\* defined: any leg of the side may come first, position p resolves it.
BestLeg(groupLegs, outcome, p) ==
    LET side == SelectSeq(groupLegs, LAMBDA l : l.outcome = outcome)
    IN  IF side = <<>> THEN NoLeg
        ELSE IF \E i \in 1..Len(side) : IsNaN(side[i].decimal)
             THEN side[((p - 1) % Len(side)) + 1]
             ELSE Head(SortLegs(side))

SideA(market) == IF market = "TOTAL" THEN "OVER" ELSE "A"

SideB(market) == IF market = "TOTAL" THEN "UNDER" ELSE "B"

\* the pair pushed for one group, as a list of zero or one ArbPair
GroupPairs(g, p) ==
    IF g.market \notin {"ML", "SPREAD", "TOTAL"} THEN <<>>
    ELSE LET a == BestLeg(g.legs, SideA(g.market), p)
             b == BestLeg(g.legs, SideB(g.market), p)
             roi == calcTwoWayRoi(a.decimal, b.decimal)
         IN  IF a # NoLeg /\ b # NoLeg
                /\ isExactLineMatch(g.market, a.line, b.line)
                /\ RLess(Zero, roi)
             THEN <<[market |-> g.market, line |-> g.line,
                     a |-> a, b |-> b, roi |-> roi]>>
             ELSE <<>>

\* pairs.sort((x, y) => y.roi - x.roi): stable, roi descending
RECURSIVE InsertPair(_, _)
InsertPair(x, s) ==
    IF s = <<>> THEN <<x>>
    ELSE IF RLess(Head(s).roi, x.roi) THEN <<x>> \o s
    ELSE <<Head(s)>> \o InsertPair(x, Tail(s))

\* the pairs left in group order, the final sort forgotten
SortPairs_Unsorted(s) == s

RECURSIVE SortPairs(_)
SortPairs(s) ==
    IF s = <<>> THEN <<>>
    ELSE InsertPair(s[Len(s)], SortPairs(SubSeq(s, 1, Len(s) - 1)))

RECURSIVE CollectPairs(_, _, _)
CollectPairs(ls, keys, p) ==
    IF keys = <<>> THEN <<>>
    ELSE GroupPairs(Group(ls, Head(keys)), p) \o CollectPairs(ls, Tail(keys), p)

findTwoWayArbs(ls, p) == SortPairs(CollectPairs(ls, GroupKeys(ls), p))

\* the legs each group's two sorts put first, in group order
RECURSIVE ChosenLegs(_, _, _)
ChosenLegs(ls, keys, p) ==
    IF keys = <<>> THEN <<>>
    ELSE LET g == Group(ls, Head(keys))
         IN  <<[market |-> g.market, line |-> g.line,
                a |-> BestLeg(g.legs, SideA(g.market), p),
                b |-> BestLeg(g.legs, SideB(g.market), p)]>>
             \o ChosenLegs(ls, Tail(keys), p)

-----------------------------------------------------------------------------
(* Matcher inputs: legs as the query service builds them from odds rows *)

\* moneyline legs (line undefined): a same-book arbitrage (2.10/2.10 at
\* BookY), cross-book arbitrages, a cross-book pair without arbitrage
\* (2.10/1.90), and the invalid prices NaN and Infinity
MoneylineLegs ==
    { Leg("BookX", "ML", "A", Num(200), Undefined),
      Leg("BookY", "ML", "A", Num(210), Undefined),
      Leg("BookY", "ML", "B", Num(210), Undefined),
      Leg("BookX", "ML", "B", Num(190), Undefined),
      Leg("BookX", "ML", "A", NaN, Undefined),
      Leg("BookX", "ML", "A", PosInf, Undefined) }

\* spread legs at the lines -3.5 and -4.0 (in tenths) and with a missing line
SpreadLegs ==
    { Leg("BookX", "SPREAD", "A", Num(210), Num(-35)),
      Leg("BookY", "SPREAD", "B", Num(210), Num(-35)),
      Leg("BookY", "SPREAD", "B", Num(210), Num(-40)),
      Leg("BookX", "SPREAD", "A", Num(210), Undefined),
      Leg("BookY", "SPREAD", "B", Num(210), Undefined) }

TotalLegs ==
    { Leg("BookX", "TOTAL", "OVER", Num(210), Num(455)),
      Leg("BookY", "TOTAL", "UNDER", Num(200), Num(455)) }

LegUniverse == MoneylineLegs \cup SpreadLegs \cup TotalLegs

\* a list of pairwise distinct legs
Distinct(ls) == \A i, j \in 1..Len(ls) : i # j => ls[i] # ls[j]

\* the legs of ls that a group's filter on one outcome keeps together with ls[i]
SameSide(ls, i) ==
    { j \in 1..Len(ls) : /\ GroupKey(ls[j]) = GroupKey(ls[i])
                         /\ ls[j].outcome = ls[i].outcome }

\* positions that can resolve an implementation-defined sort of these legs:
\* as many as the longest side that holds a NaN price
PickRange(ls) ==
    LET sizes == { Cardinality(SameSide(ls, i)) :
                     i \in { j \in 1..Len(ls) : IsNaN(ls[j].decimal) } }
    IN  IF sizes = {} THEN {1}
        ELSE 1..(CHOOSE n \in sizes : \A m \in sizes : m <= n)

-----------------------------------------------------------------------------
(* lib/arbitrage.ts: ROI percent and stake split; StakeSplit.tsx *)

Hundred == Rat(100, 1)

\* 1/a + 1/b
InvSum(a, b) == RAdd(RDiv(One, ToRat(a)), RDiv(One, ToRat(b)))

\* roiPct without the s >= 1 guard
roiPct_NoGuard(a, b) ==
    LET s == InvSum(a, b)
    IN  RMul(RDiv(RSub(One, s), s), Hundred)

roiPct(a, b) ==
    LET s == InvSum(a, b)
    IN  IF RLeq(One, s) THEN Zero
        ELSE RMul(RDiv(RSub(One, s), s), Hundred)

\* stakes proportional to the odds instead of to their inverses
stakeSplit_Swapped(t, a, b) ==
    LET s == InvSum(a, b)
    IN  [stakeA |-> RDiv(RMul(t, RDiv(One, ToRat(b))), s),
         stakeB |-> RDiv(RMul(t, RDiv(One, ToRat(a))), s)]

stakeSplit(t, a, b) ==
    LET s == InvSum(a, b)
    IN  [stakeA |-> RDiv(RMul(t, RDiv(One, ToRat(a))), s),
         stakeB |-> RDiv(RMul(t, RDiv(One, ToRat(b))), s)]

\* the calc object of the StakeSplit component for a stake and two legs
StakeSplitCalc(stake, dA, dB) ==
    LET invSum == InvSum(dA, dB)
        pA == RDiv(RDiv(One, ToRat(dA)), invSum)
        pB == RDiv(RDiv(One, ToRat(dB)), invSum)
        stakeA == RMul(stake, pA)
        stakeB == RMul(stake, pB)
        payoutIfA == RMul(stakeA, ToRat(dA))
        payoutIfB == RMul(stakeB, ToRat(dB))
    IN  [stakeA |-> stakeA, stakeB |-> stakeB,
         payoutIfA |-> payoutIfA, payoutIfB |-> payoutIfB,
         profitA |-> RSub(payoutIfA, stake),
         profitB |-> RSub(payoutIfB, stake)]

-----------------------------------------------------------------------------
(* lib/ingest.ts: the repository write and its fingerprint guard *)

\* SQL NULL, the line of a stored moneyline row
Null == <<"null", 0>>

\* Math.max on JavaScript numbers
MathMax(x, y) ==
    IF IsNaN(x) \/ IsNaN(y) THEN NaN ELSE IF JsLess(x, y) THEN y ELSE x

\* price <= 1
LeqOne(v) == IsNum(v) /\ v[2] <= 100

\* a NormalizedEvent of the adapter; startsAt is a time in ticks, lines are
\* Leg records (book, market, outcome, decimal, line)
Event(sport, league, teamA, teamB, startsAt, lines) ==
    [sport |-> sport, league |-> league, teamA |-> teamA, teamB |-> teamB,
     startsAt |-> startsAt, lines |-> lines]

\* createHash("sha1").update(s).digest("hex"): a collision-free digest
Sha1(s) == <<"sha1", s>>

\* the Event, Market, Sportsbook, Odds and OddsFingerprint tables
EmptyDb ==
    [events |-> {}, markets |-> {}, sportsbooks |-> {}, odds |-> {},
     fingerprints |-> {}]

\* the where clause of prisma.event.findFirst
EventKey(e) == <<e.sport, e.league, e.teamA, e.teamB, e.startsAt>>

\* the id of the market row getOrCreateEventAndMarket returns
MarketId(e, marketType) == <<EventKey(e), marketType>>

\* find or create the Event row and its market of the given type
getOrCreateEventAndMarket(tables, e, marketType) ==
    [tables EXCEPT !.events = @ \cup {EventKey(e)},
               !.markets = @ \cup {MarketId(e, marketType)}]

\* the row an odds upsert creates or updates for a line
OddsRow(marketId, l) ==
    [marketId |-> marketId, sportsbook |-> l.book, outcome |-> l.outcome,
     line |-> IF l.market = "ML" THEN Null ELSE l.line,
     decimal |-> l.decimal]

\* the unique key of an odds row
OddsKey(r) == <<r.marketId, r.sportsbook, r.outcome, r.line>>

\* an upsert that always creates
UpsertOdds_Insert(odds, row) == odds \cup {row}

\* prisma.odds.upsert
UpsertOdds(odds, row) ==
    { r \in odds : OddsKey(r) # OddsKey(row) } \cup {row}

RECURSIVE upsertOddsBatch(_, _, _)
upsertOddsBatch(tables, marketId, lines) ==
    IF lines = <<>> THEN tables
    ELSE upsertOddsBatch(
             [tables EXCEPT !.sportsbooks = @ \cup {Head(lines).book},
                        !.odds = UpsertOdds(@, OddsRow(marketId, Head(lines)))],
             marketId, Tail(lines))

fingerprintKey(e) ==
    <<e.teamA, e.teamB, e.startsAt, e.league, e.sport, "ML">>

\* the loop of computeBestPriceHash for one outcome
RECURSIVE BestValidPrice(_, _, _)
BestValidPrice(lines, outcome, best) ==
    IF lines = <<>> THEN best
    ELSE LET price == Head(lines).decimal
         IN  BestValidPrice(Tail(lines), outcome,
                 IF ~IsFinite(price) \/ LeqOne(price) THEN best
                 ELSE IF Head(lines).outcome = outcome
                      THEN MathMax(best, price)
                      ELSE best)

computeBestPriceHash(e) ==
    Sha1(<<"A:", BestValidPrice(e.lines, "A", Num(0)),
           "|B:", BestValidPrice(e.lines, "B", Num(0))>>)

\* prisma.oddsFingerprint.upsert
UpsertFingerprint(fingerprints, key, hash) ==
    { r \in fingerprints : r[1] # key } \cup {<<key, hash>>}

\* a guard that never finds the hash unchanged
SameHash_Never(existingMap, key, newHash) == FALSE

\* prevHash && prevHash === newHash
SameHash(existingMap, key, newHash) ==
    \E r \in existingMap : r[1] = key /\ r[2] = newHash

\* one market type of the loop over ["ML", "SPREAD", "TOTAL"]
WriteMarket(tables, ev, marketType) ==
    LET ls == SelectSeq(ev.lines, LAMBDA l : l.market = marketType)
    IN  IF ls = <<>> THEN tables
        ELSE upsertOddsBatch(getOrCreateEventAndMarket(tables, ev, marketType),
                             MarketId(ev, marketType), ls)

WriteMarkets(tables, ev) ==
    WriteMarket(WriteMarket(WriteMarket(tables, ev, "ML"), ev, "SPREAD"),
                ev, "TOTAL")

\* the for loop over the events from position i on; acc holds the tables and
\* the two counters; the fingerprint upserts succeed (upsertOk) or raise
RECURSIVE IngestEvents(_, _, _, _, _)
IngestEvents(acc, existingMap, events, i, upsertOk) ==
    IF i > Len(events) THEN acc
    ELSE LET ev == events[i]
             key == fingerprintKey(ev)
             newHash == computeBestPriceHash(ev)
             written == WriteMarkets(acc.db, ev)
         IN  IF SameHash(existingMap, key, newHash)
             THEN IngestEvents(acc, existingMap, events, i + 1, upsertOk)
             ELSE IngestEvents(
                      [db |-> IF upsertOk
                              THEN [written EXCEPT !.fingerprints =
                                       UpsertFingerprint(@, key, newHash)]
                              ELSE written,
                       eventsTouched |-> acc.eventsTouched + 1,
                       oddsWritten |-> acc.oddsWritten + Len(ev.lines)],
                      existingMap, events, i + 1, upsertOk)

\* a call that gives up when the fingerprint lookup raises
ingestNormalizedEvents_Raise(tables, events, lookupOk, upsertOk) ==
    IF Len(events) = 0 \/ ~lookupOk
    THEN [db |-> tables, eventsTouched |-> 0, oddsWritten |-> 0]
    ELSE LET keys == { fingerprintKey(events[i]) : i \in 1..Len(events) }
         IN  IngestEvents([db |-> tables, eventsTouched |-> 0, oddsWritten |-> 0],
                          { r \in tables.fingerprints : r[1] \in keys },
                          events, 1, upsertOk)

\* lookupOk: the batched fingerprint lookup succeeds
ingestNormalizedEvents(tables, events, lookupOk, upsertOk) ==
    IF Len(events) = 0
    THEN [db |-> tables, eventsTouched |-> 0, oddsWritten |-> 0]
    ELSE LET keys == { fingerprintKey(events[i]) : i \in 1..Len(events) }
             existingMap == IF lookupOk
                            THEN { r \in tables.fingerprints : r[1] \in keys }
                            ELSE {}
         IN  IngestEvents([db |-> tables, eventsTouched |-> 0, oddsWritten |-> 0],
                          existingMap, events, 1, upsertOk)

-----------------------------------------------------------------------------
(* app/api/opportunities/route.ts: the query over the stored odds *)

\* the default of the minRoi parameter, 0.01
DefaultMinRoi == Rat(1, 100)

\* the default of the limit parameter
DefaultLimit == 25

\* String.prototype.toLowerCase on the names that occur
ToLowerCase(name) ==
    CASE name = "BookX" -> "bookx"
      [] name = "BookY" -> "booky"
      [] name = "BookZ" -> "bookz"
      [] name = "Over" -> "over"
      [] name = "Under" -> "under"
      [] OTHER -> name

\* the books parameter split at the commas, each name lower-cased
bookWhitelist(names) == { ToLowerCase(names[i]) : i \in 1..Len(names) }

\* the rows of a set in the order the database returns them
RECURSIVE SetToSeq(_)
SetToSeq(S) ==
    IF S = {} THEN <<>>
    ELSE LET x == CHOOSE x \in S : TRUE
         IN  <<x>> \o SetToSeq(S \ {x})

\* m.odds.filter(...): the rows of a market whose book is on the whitelist,
\* or all its rows when the whitelist is empty; every stored row is taken
\* to be inside the freshness window
AllowedOdds(tables, marketId, whitelist) ==
    { o \in tables.odds :
        /\ o.marketId = marketId
        /\ whitelist # {} => ToLowerCase(o.sportsbook) \in whitelist }

\* the ArbLeg pushed for an odds row of a market of the given type
OddsLeg(o, type) ==
    Leg(o.sportsbook, type, o.outcome, o.decimal,
        IF type = "ML" \/ o.line = Null THEN Undefined ELSE o.line)

\* Number(roi.toFixed(3)) for roi >= 0: rounded to thousandths
ToFixed3(r) == Rat((2 * 1000 * r.n + r.d) \div (2 * r.d), 1000)

\* the results pushed for one event, its moneyline market only
EventResults(tables, ev, whitelist) ==
    LET marketId == <<ev, "ML">>
        rows == IF marketId \in tables.markets
                THEN SetToSeq(AllowedOdds(tables, marketId, whitelist))
                ELSE <<>>
        evLegs == [i \in 1..Len(rows) |-> OddsLeg(rows[i], "ML")]
        arbs == SelectSeq(findTwoWayArbs(evLegs, 1),
                          LAMBDA a : RLeq(DefaultMinRoi, a.roi))
    IN  [i \in 1..Len(arbs) |->
            [event |-> ev, market |-> arbs[i].market, line |-> arbs[i].line,
             roi |-> ToFixed3(arbs[i].roi), a |-> arbs[i].a, b |-> arbs[i].b]]

RECURSIVE AllResults(_, _, _)
AllResults(tables, evs, whitelist) ==
    IF evs = <<>> THEN <<>>
    ELSE EventResults(tables, Head(evs), whitelist)
         \o AllResults(tables, Tail(evs), whitelist)

\* GET /api/opportunities without demo data and past its response cache:
\* the opportunities of the first page, sorted by roi
Opportunities(tables, names) ==
    LET results == SortPairs(AllResults(tables, SetToSeq(tables.events),
                                        bookWhitelist(names)))
    IN  SubSeq(results, 1, IF Len(results) < DefaultLimit
                           THEN Len(results) ELSE DefaultLimit)

\* the books parameter of a query: absent, or a list of names
BookLists == { <<>>, <<"bookx">>, <<"BookY", "BookZ">> }

\* no query answered yet
NoQuery == [books |-> <<>>, opportunities |-> <<>>, reference |-> <<>>]

\* ingestNormalizedEvents with the fingerprint guard out of action: the
\* lookup finds no stored hash, so every event is written
ingestAlways(tables, events) ==
    ingestNormalizedEvents(tables, events, FALSE, FALSE)

-----------------------------------------------------------------------------
(* app/api/opportunities/route.ts: the query with its freshness window,
   book list and minimum roi; q holds the parameters and Date.now() *)

\* the default of the freshMins parameter: a week
DefaultFreshMins == 10080

\* FRESH_MS in seconds; a freshMins below 1 falls back to the default
FreshSeconds(freshMins) ==
    (IF freshMins < 1 THEN DefaultFreshMins ELSE freshMins) * 60

\* a filter that lets every age pass
TooOld_Never(now, seenAt, freshMins) == FALSE

\* ageMs > FRESH_MS
TooOld(now, seenAt, freshMins) == now - seenAt > FreshSeconds(freshMins)

\* a filter that lets every book pass
OffList_Never(whitelist, name) == FALSE

\* bookWhitelist.length && !bookWhitelist.includes(name.toLowerCase())
OffList(whitelist, name) ==
    whitelist # {} /\ ToLowerCase(name) \notin whitelist

\* a threshold that lets every pair pass
MeetsMinRoi_Always(roi, minRoi) == TRUE

\* a.roi >= minRoi
MeetsMinRoi(roi, minRoi) == RLeq(minRoi, roi)

\* m.odds.filter(...) on the rows of a market
FilteredOdds(tables, seen, marketId, q) ==
    { o \in tables.odds :
        /\ o.marketId = marketId
        /\ ~TooOld(q.now, seen[OddsKey(o)], q.freshMins)
        /\ ~OffList(bookWhitelist(q.books), o.sportsbook) }

\* prisma.event.findMany: startsAt >= since, ordered by startsAt descending
\* (fewer than the 100 rows it takes)
RECURSIVE FoundEvents(_, _)
FoundEvents(events, since) ==
    LET found == { ev \in events : ev[5] >= since }
    IN  IF found = {} THEN <<>>
        ELSE LET x == CHOOSE x \in found : \A y \in found : y[5] <= x[5]
             IN  <<x>> \o FoundEvents(found \ {x}, since)

\* the results pushed for one event: its moneyline market, the default of
\* the markets parameter
PageResults(tables, seen, ev, q) ==
    LET marketId == <<ev, "ML">>
        rows == IF marketId \in tables.markets
                THEN SetToSeq(FilteredOdds(tables, seen, marketId, q))
                ELSE <<>>
        evLegs == [i \in 1..Len(rows) |-> OddsLeg(rows[i], "ML")]
        arbs == SelectSeq(findTwoWayArbs(evLegs, 1),
                          LAMBDA a : MeetsMinRoi(a.roi, q.minRoi))
    IN  [i \in 1..Len(arbs) |->
            [event |-> ev, market |-> arbs[i].market, line |-> arbs[i].line,
             roi |-> ToFixed3(arbs[i].roi), a |-> arbs[i].a, b |-> arbs[i].b]]

RECURSIVE AllPageResults(_, _, _, _)
AllPageResults(tables, seen, evs, q) ==
    IF evs = <<>> THEN <<>>
    ELSE PageResults(tables, seen, Head(evs), q)
         \o AllPageResults(tables, seen, Tail(evs), q)

\* the response computed past the cache and without demo data: the sorted
\* results and their first page
Answer(tables, seen, q) ==
    LET evs == FoundEvents(tables.events, q.now - FreshSeconds(q.freshMins))
        results == SortPairs(AllPageResults(tables, seen, evs, q))
    IN  [q |-> q, events |-> evs, results |-> results,
         opportunities |->
             SubSeq(results, 1, IF Len(results) < DefaultLimit
                                THEN Len(results) ELSE DefaultLimit)]

\* no query answered yet
NoPage ==
    [q |-> [books |-> <<>>, freshMins |-> DefaultFreshMins,
            minRoi |-> DefaultMinRoi, now |-> 0],
     events |-> <<>>, results |-> <<>>, opportunities |-> <<>>]

\* the unique keys of the odds rows a call of ingestNormalizedEvents upserts
WrittenKeys(tables, events) ==
    { OddsKey(o) :
        o \in ingestNormalizedEvents([tables EXCEPT !.odds = {}], events,
                                     TRUE, TRUE).db.odds }

\* update: { lastSeenAt: new Date() }, and the column's default on create
StampOdds(seen, odds, written, now) ==
    [k \in { OddsKey(o) : o \in odds } |->
        IF k \in written THEN now ELSE seen[k]]
-----------------------------------------------------------------------------
(* lib/oddsAdapters/theOddsApi.ts: the normalization of fetchTheOddsApi *)

\* a string value of the provider's JSON
Str(s) == <<"str", s>>

\* Number(v): a number is itself, undefined and a string that is not a
\* numeral are NaN, a numeral is its value (lines are in tenths)
ToNumber(v) ==
    CASE TypeofNumber(v) -> v
      [] v = Str("3.5") -> Num(35)
      [] v = Str("-3.5") -> Num(-35)
      [] OTHER -> NaN

\* typeof out.point === "number" ? out.point : Number(out.point)
PointOf(out) == IF TypeofNumber(out.point) THEN out.point ELSE ToNumber(out.point)

\* an outcome of a provider market
RawOutcome(name, price, point) == [name |-> name, price |-> price, point |-> point]

\* the first market of a bookmaker with the key, or no outcomes
RECURSIVE FindOutcomes(_, _)
FindOutcomes(markets, key) ==
    IF markets = <<>> THEN <<>>
    ELSE IF Head(markets).key = key THEN Head(markets).outcomes
    ELSE FindOutcomes(Tail(markets), key)

\* the loops over the outcomes of a market: every outcome named after a team
\* (or over/under) is pushed with out.price and the point as they are; the
\* names carry no blanks for trim() to remove
RECURSIVE NormalizeOutcomes(_, _, _, _, _)
NormalizeOutcomes(outs, book, market, nameA, nameB) ==
    IF outs = <<>> THEN <<>>
    ELSE LET out == Head(outs)
             name == IF market = "TOTAL" THEN ToLowerCase(out.name) ELSE out.name
             line == IF market = "ML" THEN Undefined ELSE PointOf(out)
             rest == NormalizeOutcomes(Tail(outs), book, market, nameA, nameB)
             first == IF market = "TOTAL" THEN "OVER" ELSE "A"
             second == IF market = "TOTAL" THEN "UNDER" ELSE "B"
         IN  IF name = nameA
             THEN <<Leg(book, market, first, out.price, line)>> \o rest
             ELSE IF name = nameB
             THEN <<Leg(book, market, second, out.price, line)>> \o rest
             ELSE rest

\* the lines of one bookmaker: h2h, then spreads, then totals
BookLines(book, teamA, teamB) ==
    NormalizeOutcomes(FindOutcomes(book.markets, "h2h"),
                      book.title, "ML", teamA, teamB)
    \o NormalizeOutcomes(FindOutcomes(book.markets, "spreads"),
                         book.title, "SPREAD", teamA, teamB)
    \o NormalizeOutcomes(FindOutcomes(book.markets, "totals"),
                         book.title, "TOTAL", "over", "under")

RECURSIVE AllBookLines(_, _, _)
AllBookLines(books, teamA, teamB) ==
    IF books = <<>> THEN <<>>
    ELSE BookLines(Head(books), teamA, teamB)
         \o AllBookLines(Tail(books), teamA, teamB)

\* splitSportTitle(...).league of a title "text (paren)" or "text"
splitSportTitle(title) == IF title.paren # "" THEN title.paren ELSE title.text

\* the loop over the raw events: away = A, home = B; an event without lines
\* is left out
RECURSIVE NormalizeEvents(_)
NormalizeEvents(rawEvents) ==
    IF rawEvents = <<>> THEN <<>>
    ELSE LET ev == Head(rawEvents)
             lines == AllBookLines(ev.bookmakers, ev.away_team, ev.home_team)
         IN  (IF Len(lines) > 0
              THEN <<Event(ev.sport_key, splitSportTitle(ev.sport_title),
                           ev.away_team, ev.home_team, ev.commence_time,
                           lines)>>
              ELSE <<>>)
             \o NormalizeEvents(Tail(rawEvents))
-----------------------------------------------------------------------------
(* app/api/ingest-all/route.ts: the batch trigger *)

REGION == "us"

MARKETS == <<"h2h">>

DEFAULT_CONCURRENCY == 3

DEFAULT_TIME_WINDOW_HOURS == 12

DEFAULT_TTL_SECONDS == 60

ARB_THRESHOLD == One

MAX_RETRIES_429 == 3

\* TIME_WINDOW_HOURS * 60 * 60, the length of the window in seconds
WindowSeconds == DEFAULT_TIME_WINDOW_HOURS * 60 * 60

comboKey(s, r, m) == <<s, r, m>>

\* a gate that never skips
TtlSkips_Never(lastFetchAt, key, ttlSeconds, now) == FALSE

\* a gate that does not see a stamp written in the same instant
TtlSkips_SameInstant(lastFetchAt, key, ttlSeconds, now) ==
    now - lastFetchAt[key] < ttlSeconds /\ now # lastFetchAt[key]

\* shouldSkipByTTL returns true: now - (lastFetchAtByCombo.get(key) ?? 0) is
\* below the TTL; times are in seconds and an absent key reads as 0
TtlSkips(lastFetchAt, key, ttlSeconds, now) ==
    now - lastFetchAt[key] < ttlSeconds

\* Number(line.decimal) || 0
OrZero(v) == IF Falsy(v) THEN Num(0) ELSE v

\* the loop of computeEventOddsHash for one outcome
RECURSIVE BestRawPrice(_, _, _)
BestRawPrice(lines, outcome, best) ==
    IF lines = <<>> THEN best
    ELSE BestRawPrice(Tail(lines), outcome,
             IF Head(lines).outcome = outcome
             THEN MathMax(best, OrZero(Head(lines).decimal))
             ELSE best)

computeEventOddsHash(ev) ==
    Sha1(<<"A:", BestRawPrice(ev.lines, "A", Num(0)),
           "|B:", BestRawPrice(ev.lines, "B", Num(0))>>)

hasH2HArb(ev, threshold) ==
    LET bestA == BestValidPrice(ev.lines, "A", Num(0))
        bestB == BestValidPrice(ev.lines, "B", Num(0))
    IN  IF LeqOne(bestA) \/ LeqOne(bestB) THEN FALSE
        ELSE RLess(RAdd(RDiv(One, ToRat(bestA)), RDiv(One, ToRat(bestB))),
                   threshold)

\* a filter that keeps every event
withinWindow_Open(ev, from, to) == TRUE

\* t >= fromISO && t <= toISO on ISO strings of one format
withinWindow(ev, from, to) == ev.startsAt >= from /\ ev.startsAt <= to

\* the stableId of an event fetched for a sport and market
StableId(e, sport, market) == <<e.teamA, e.teamB, e.startsAt, sport, market>>

\* a guard that never finds the hash unchanged
HashUnchanged_Never(hashes, stableId, hash) == FALSE

\* prev && prev === hash
HashUnchanged(hashes, stableId, hash) ==
    \E r \in hashes : r[1] = stableId /\ r[2] = hash

\* lastOddsHashByEvent.set(stableId, hash)
SetHash(hashes, stableId, hash) ==
    { r \in hashes : r[1] # stableId } \cup {<<stableId, hash>>}

\* a DetailRow; note and error are "" when the row has none
DetailRow(sport, market, events, odds, note, error) ==
    [sport |-> sport, region |-> REGION, market |-> market,
     events |-> events, odds |-> odds, note |-> note, error |-> error]

\* a hash guard that pushes the no-change row and still goes on to ingest
\* the event
RECURSIVE HashGuard_NoContinue(_, _, _, _, _)
HashGuard_NoContinue(acc, shortlisted, i, sport, market) ==
    IF i > Len(shortlisted) THEN acc
    ELSE LET e == shortlisted[i]
             stableId == StableId(e, sport, market)
             hash == computeEventOddsHash(e)
             row == DetailRow(sport, market, 1, 0, "no-change", "")
         IN  HashGuard_NoContinue(
                 [acc EXCEPT
                     !.details = IF HashUnchanged(acc.hashes, stableId, hash)
                                 THEN Append(@, row) ELSE @,
                     !.unchanged = IF HashUnchanged(acc.hashes, stableId, hash)
                                   THEN Append(@, e) ELSE @,
                     !.hashes = SetHash(@, stableId, hash),
                     !.toIngest = Append(@, e)],
                 shortlisted, i + 1, sport, market)

\* the hash guard loop over the shortlisted events from position i on; acc
\* holds lastOddsHashByEvent, the detail rows, toIngest and the events that
\* were found unchanged
RECURSIVE HashGuard(_, _, _, _, _)
HashGuard(acc, shortlisted, i, sport, market) ==
    IF i > Len(shortlisted) THEN acc
    ELSE LET e == shortlisted[i]
             stableId == StableId(e, sport, market)
             hash == computeEventOddsHash(e)
         IN  IF HashUnchanged(acc.hashes, stableId, hash)
             THEN HashGuard(
                      [acc EXCEPT
                          !.details = Append(@, DetailRow(sport, market, 1, 0,
                                                          "no-change", "")),
                          !.unchanged = Append(@, e)],
                      shortlisted, i + 1, sport, market)
             ELSE HashGuard(
                      [acc EXCEPT
                          !.hashes = SetHash(@, stableId, hash),
                          !.toIngest = Append(@, e)],
                      shortlisted, i + 1, sport, market)

\* the TTL gate loop over the sports from position i on (one market each);
\* acc holds lastFetchAtByCombo, the detail rows and the queued sports
RECURSIVE TtlGate(_, _, _, _, _)
TtlGate(acc, sportsList, i, ttlSeconds, now) ==
    IF i > Len(sportsList) THEN acc
    ELSE LET sport == sportsList[i]
             key == comboKey(sport, REGION, MARKETS[1])
         IN  IF ttlSeconds > 0 /\ TtlSkips(acc.lastFetchAt, key, ttlSeconds, now)
             THEN TtlGate(
                      [acc EXCEPT
                          !.details = Append(@, DetailRow(sport, MARKETS[1],
                                                          0, 0, "ttl-skip", ""))],
                      sportsList, i + 1, ttlSeconds, now)
             ELSE TtlGate(
                      [acc EXCEPT
                          !.lastFetchAt =
                              IF ttlSeconds > 0
                              THEN [@ EXCEPT ![key] = now]
                              ELSE @,
                          !.queue = Append(@, sport)],
                      sportsList, i + 1, ttlSeconds, now)

-----------------------------------------------------------------------------
(* Repository inputs: normalized events of two fixtures *)

\* the time of the first request the process serves, in seconds
ProcessStart == DEFAULT_TIME_WINDOW_HOURS * 60 * 60

\* the clock advances by one default TTL
TickSeconds == DEFAULT_TTL_SECONDS

\* both fixtures start when the first request arrives
KickOff == ProcessStart

\* the basketball fixture at a start time
Fixture1At(t, lines) ==
    Event("Basketball", "NBA", "Lakers", "Celtics", t, lines)

Fixture1(lines) == Fixture1At(KickOff, lines)

Fixture2(lines) ==
    Event("Baseball", "MLB", "Yankees", "Red Sox", KickOff, lines)

\* best prices A 2.00 / B 2.10
BaseLines ==
    << Leg("BookX", "ML", "A", Num(200), Undefined),
       Leg("BookY", "ML", "B", Num(210), Undefined) >>

\* the best A price moved to 2.05
MovedLines ==
    << Leg("BookX", "ML", "A", Num(205), Undefined),
       Leg("BookY", "ML", "B", Num(210), Undefined) >>

\* the best prices of BaseLines and one more quote below them
ExtraLines ==
    BaseLines \o << Leg("BookY", "ML", "A", Num(190), Undefined) >>

\* the best prices of BaseLines and the quote of a third book below them
ThirdBookLines ==
    BaseLines \o << Leg("BookZ", "ML", "A", Num(195), Undefined) >>

\* the best A price, 2.20, is the quote of a third book, and B is at 2.15
TopLines ==
    << Leg("BookX", "ML", "A", Num(200), Undefined),
       Leg("BookY", "ML", "B", Num(215), Undefined),
       Leg("BookZ", "ML", "A", Num(220), Undefined) >>

\* a fixture that starts an hour after the first request
LateFixture(lines) == Fixture1At(KickOff + 60 * 60, lines)

\* what the provider returns while time passes: the late fixture with and
\* without the third book's quote, and a fixture that has started
FreshEvents ==
    { LateFixture(TopLines), LateFixture(BaseLines), Fixture2(MovedLines) }

\* what the provider returns from cycle to cycle
CycleEvents ==
    { Fixture1(BaseLines), Fixture1(MovedLines), Fixture1(ThirdBookLines),
      Fixture2(BaseLines) }

EventUniverse ==
    { Fixture1(BaseLines), Fixture1(MovedLines), Fixture1(ExtraLines),
      Fixture2(BaseLines) }

-----------------------------------------------------------------------------
(* Provider answers: the events the adapter can return for a sport *)

\* the sports a request can name, three of the configured SPORTS
Sports == {"baseball_mlb", "soccer_epl", "basketball_nba"}

\* the sports query parameter
SportsLists == { <<"basketball_nba">> }

\* best prices 1.90 / 1.90: no arbitrage
NoArbLines ==
    << Leg("BookX", "ML", "A", Num(190), Undefined),
       Leg("BookY", "ML", "B", Num(190), Undefined) >>

\* one basketball fixture, quoted with an arbitrage (2.00 / 2.10), with the
\* best A price moved (2.05 / 2.10) and without arbitrage
QuotedEvents ==
    { Fixture1(BaseLines), Fixture1(MovedLines), Fixture1(NoArbLines) }

\* what the provider can return for a sport
ProviderEvents(sport) == QuotedEvents

\* the answers of at most MaxPayload pairwise distinct events
Payloads(sport) ==
    { l \in UNION { [1..k -> ProviderEvents(sport)] : k \in 0..MaxPayload } :
        Distinct(l) }

\* an Error: its status (0 when it has none) and the token its message holds
Err(status, token) == [status |-> status, token |-> token]

\* the failures of a fetch: rate limit, quota exhausted, a server error, and
\* a server error whose body holds the rate-limit or the quota token
FetchErrors ==
    { Err(429, "EXCEEDED_FREQ_LIMIT"), Err(401, "OUT_OF_USAGE_CREDITS"),
      Err(500, ""), Err(500, "EXCEEDED_FREQ_LIMIT"),
      Err(500, "OUT_OF_USAGE_CREDITS") }

\* e?.status === 429 || msg.includes("EXCEEDED_FREQ_LIMIT")
is429(e) == e.status = 429 \/ e.token = "EXCEEDED_FREQ_LIMIT"

\* a test that takes every error for a quota error
is401Out_Any(e) == TRUE

\* a test that looks at the status only
is401Out_StatusOnly(e) == e.status = 401

\* err?.status === 401 || msg.includes("OUT_OF_USAGE_CREDITS")
is401Out(e) == e.status = 401 \/ e.token = "OUT_OF_USAGE_CREDITS"

\* a retry rule that forgets the bound on the attempts
Rethrows_Unbounded(e, attempt, retries) == ~is429(e)

\* if (!is429 || attempt === retries) throw e
Rethrows(e, attempt, retries) == ~is429(e) \/ attempt = retries

\* let lastErr, before any attempt has failed
NoErr == Err(0, "")

\* what ingestNormalizedEvents raises when a Prisma call fails
DbError == Err(0, "PrismaClientKnownRequestError")

\* the one error of the 503 response
DbUnreachable == Err(0, "database not reachable at start")

-----------------------------------------------------------------------------
(* Idle values of the variables a specification does not use *)

IdleMatcher ==
    /\ legs = <<>>
    /\ pairs = <<>>
    /\ chosen = <<>>
    /\ mpc = "idle"
    /\ pick = 1

IdleMath ==
    /\ priceA = Num(200)
    /\ priceB = Num(200)
    /\ target = One
    /\ roiResult = Zero
    /\ split = [stakeA |-> Zero, stakeB |-> Zero]
    /\ calc = StakeSplitCalc(One, Num(200), Num(200))
    /\ called = {}

\* empty tables
IdleStorage == db = EmptyDb

\* a call that has not started
NoWriter == [pc |-> "idle", type |-> "ML", event |-> 0, markets |-> {}]

\* no call of getOrCreateEventAndMarket and no row so far
IdleRace ==
    /\ writers = [w \in 1..MaxWriters |-> NoWriter]
    /\ rowsById = [events |-> {}, markets |-> {}]

\* no hash computed so far
NoHashes == [events |-> <<>>, best |-> <<>>, scheduler |-> <<>>]

\* no response of the provider so far
IdleAdapter ==
    /\ raw = <<>>
    /\ normalized = <<>>

\* no call of the repository write so far
\* no call yet: nothing failed
NoFaults == [lookupOk |-> TRUE, upsertOk |-> TRUE]

\* a request slot that serves nothing
NoRun ==
    [pc |-> "idle", sports |-> <<>>, ttlSeconds |-> 0, gateAt |-> 0,
     queued |-> {}, skipped |-> {}]

\* the answer of the middleware before any request
NoAnswer == [status |-> 0, error |-> "", next |-> FALSE]

\* const buckets = {}: no bucket, nothing let through
NoLimiter == [now |-> 0, buckets |-> {}, reached |-> {}, last |-> NoAnswer]

\* new Map(): no cached response, no request served
NoCache ==
    [entries |-> {},
     last |-> [q |-> <<>>, data |-> <<>>, hit |-> FALSE]]

\* no event looked at yet
NoCheck == [event |-> <<>>, shortlisted |-> FALSE, pairs |-> <<>>]

IdleLate ==
    /\ faults = NoFaults
    /\ checked = NoCheck
    /\ calledAt = [s \in Sports |-> 0]
    /\ runs = <<NoRun, NoRun>>
    /\ limiter = NoLimiter
    /\ cache = NoCache

IdleIngest ==
    /\ IdleLate
    /\ IdleAdapter
    /\ IdleRace
    /\ hashed = NoHashes
    /\ ipc = "idle"
    /\ ingested = <<>>
    /\ ingestResult = [eventsTouched |-> 0, oddsWritten |-> 0]
    /\ fpWorked = TRUE
    /\ oddsChanged = FALSE
    /\ repeated = FALSE
    /\ prevWrote = FALSE
    /\ dbAll = EmptyDb
    /\ query = NoQuery
    /\ lastSeenAt = <<>>
    /\ page = NoPage

\* a task that is not queued
NoTask ==
    [pc |-> "none", attempt |-> 0, calls |-> 0, lastErr |-> NoErr,
     toIngest |-> <<>>]

\* a task that has returned
DoneTask == [NoTask EXCEPT !.pc = "done"]

NoEvents == [s \in Sports |-> <<>>]

\* no response sent yet
NoResponse == [status |-> 0, ok |-> FALSE, stoppedEarly |-> FALSE]

\* what a run starts from
FreshRun ==
    /\ queue = <<>>
    /\ tasks = [s \in Sports |-> NoTask]
    /\ details = <<>>
    /\ errors = <<>>
    /\ totalEvents = 0
    /\ totalOdds = 0
    /\ outOfCredits = FALSE
    /\ response = NoResponse
    /\ fetched = {}
    /\ received = NoEvents
    /\ unchanged = NoEvents
    /\ passed = NoEvents

\* a process that has served no request
IdleBatch ==
    /\ clock = ProcessStart
    /\ lastFetchAtByCombo =
          [k \in { comboKey(s, REGION, MARKETS[1]) : s \in Sports } |-> 0]
    /\ lastOddsHashByEvent = {}
    /\ lastPass = [s \in Sports |-> [at |-> 0, gatedAt |-> 0]]
    /\ bpc = "idle"
    /\ req = [sports |-> <<>>, ttlSeconds |-> 0, concurrency |-> 1,
              dryRun |-> FALSE]
    /\ fromT = ProcessStart
    /\ FreshRun
    /\ prevRun = [status |-> 0, dryRun |-> FALSE, fromT |-> ProcessStart,
                  received |-> NoEvents]

-----------------------------------------------------------------------------
(* SpecMatcher: one call of findTwoWayArbs on a bounded list of legs *)

InitMatcher ==
    /\ \E k \in 0..MaxLegs : legs \in [1..k -> LegUniverse]
    /\ Distinct(legs)
    /\ pairs = <<>>
    /\ chosen = <<>>
    /\ mpc = "ready"
    /\ pick = 1
    /\ IdleMath
    /\ IdleStorage
    /\ IdleIngest
    /\ IdleBatch

FindArbs ==
    /\ mpc = "ready"
    /\ \E p \in PickRange(legs) :
          /\ pick' = p
          /\ pairs' = findTwoWayArbs(legs, p)
          /\ chosen' = ChosenLegs(legs, GroupKeys(legs), p)
    /\ mpc' = "done"
    /\ UNCHANGED <<legs, mathVars, storageVars, ingestVars, batchVars>>

NextMatcher == FindArbs

SpecMatcher == InitMatcher /\ [][NextMatcher]_vars

-----------------------------------------------------------------------------
(* SpecMath: roiPct, stakeSplit and the StakeSplit component on valid odds *)

\* decimal odds above 1.0, in hundredths: 2.00/2.00 and 1.50/3.00 give
\* 1/a + 1/b = 1 exactly
MathPrices == { Num(n) : n \in {101, 150, 190, 200, 210, 300, 1000} }

\* capitals 0.5, 100 and 250
Capitals == { Rat(1, 2), Rat(100, 1), Rat(250, 1) }

InitMath ==
    /\ priceA \in MathPrices
    /\ priceB \in MathPrices
    /\ target \in Capitals
    /\ roiResult = Zero
    /\ split = [stakeA |-> Zero, stakeB |-> Zero]
    /\ calc = StakeSplitCalc(One, Num(200), Num(200))
    /\ called = {}
    /\ IdleMatcher
    /\ IdleStorage
    /\ IdleIngest
    /\ IdleBatch

CallRoiPct ==
    /\ "roiPct" \notin called
    /\ roiResult' = roiPct(priceA, priceB)
    /\ called' = called \cup {"roiPct"}
    /\ UNCHANGED <<priceA, priceB, target, split, calc, matcherVars,
                   storageVars, ingestVars, batchVars>>

CallStakeSplit ==
    /\ "stakeSplit" \notin called
    /\ split' = stakeSplit(target, priceA, priceB)
    /\ called' = called \cup {"stakeSplit"}
    /\ UNCHANGED <<priceA, priceB, target, roiResult, calc, matcherVars,
                   storageVars, ingestVars, batchVars>>

RenderStakeSplit ==
    /\ "StakeSplit" \notin called
    /\ calc' = StakeSplitCalc(target, priceA, priceB)
    /\ called' = called \cup {"StakeSplit"}
    /\ UNCHANGED <<priceA, priceB, target, roiResult, split, matcherVars,
                   storageVars, ingestVars, batchVars>>

NextMath == CallRoiPct \/ CallStakeSplit \/ RenderStakeSplit

SpecMath == InitMath /\ [][NextMath]_vars

-----------------------------------------------------------------------------
(* SpecIngest: ingestNormalizedEvents called again and again *)

InitIngest ==
    /\ IdleStorage
    /\ IdleIngest
    /\ IdleBatch
    /\ IdleMatcher
    /\ IdleMath

\* the lists of at most MaxEvents pairwise distinct events
EventLists ==
    { l \in UNION { [1..k -> EventUniverse] : k \in 0..MaxEvents } :
        Distinct(l) }

\* one call of ingestNormalizedEvents: the fingerprint lookup works or
\* raises, and so do the fingerprint upserts
IngestCall(events, lookupOk, upsertOk) ==
    \E r \in {ingestNormalizedEvents(db, events, lookupOk, upsertOk)} :
        /\ db' = r.db
        /\ ipc' = "called"
        /\ ingested' = events
        /\ ingestResult' = [eventsTouched |-> r.eventsTouched,
                            oddsWritten |-> r.oddsWritten]
        /\ fpWorked' = (lookupOk /\ upsertOk)
        /\ oddsChanged' = (r.db.odds # db.odds)
        /\ repeated' = (ipc = "called" /\ events = ingested /\ fpWorked)
        /\ prevWrote' = (ingestResult.oddsWritten > 0)

Ingest ==
    /\ \E events \in EventLists, lookupOk \in BOOLEAN, upsertOk \in BOOLEAN :
          IngestCall(events, lookupOk, upsertOk)
    /\ UNCHANGED <<dbAll, query, lastSeenAt, page, sideVars,
                   matcherVars, mathVars, batchVars>>

NextIngest == Ingest

SpecIngest == InitIngest /\ [][NextIngest]_vars

-----------------------------------------------------------------------------
(* SpecQuery: ingest cycles with a working fingerprint store, each followed
   by queries of app/api/opportunities/route.ts *)

\* the lists of at most MaxEvents pairwise distinct events of a cycle
CycleLists ==
    { l \in UNION { [1..k -> CycleEvents] : k \in 0..MaxEvents } :
        Distinct(l) }

\* one ingest cycle; dbAll follows the same events with every one written
IngestCycle ==
    /\ \E events \in CycleLists :
          /\ IngestCall(events, TRUE, TRUE)
          /\ dbAll' = ingestAlways(dbAll, events).db
    /\ query' = NoQuery
    /\ UNCHANGED <<lastSeenAt, page, sideVars, matcherVars, mathVars, batchVars>>

\* GET /api/opportunities after at least one ingest cycle
Query ==
    /\ ipc = "called"
    /\ \E names \in BookLists :
          query' = [books |-> names,
                    opportunities |-> Opportunities(db, names),
                    reference |-> Opportunities(dbAll, names)]
    /\ UNCHANGED <<db, ipc, ingested, ingestResult, fpWorked, oddsChanged,
                   repeated, prevWrote, dbAll, lastSeenAt, page, sideVars,
                   matcherVars, mathVars, batchVars>>

InitQuery == InitIngest

NextQuery == IngestCycle \/ Query

SpecQuery == InitQuery /\ [][NextQuery]_vars

-----------------------------------------------------------------------------
(* SpecBatch: POST /api/ingest-all, one run after the other *)

InitBatch ==
    /\ IdleBatch
    /\ IdleStorage
    /\ IdleIngest
    /\ IdleMatcher
    /\ IdleMath

\* the tasks p-limit is running: started and not yet returned
Active ==
    { s \in Sports : tasks[s].pc \in {"fetching", "backoff", "ingesting"} }

\* p-limit starts a task only without this
PoolFull_Never(active, concurrency) == FALSE

\* p-limit: activeCount < concurrency is needed to start the next task
PoolFull(active, concurrency) == Cardinality(active) >= concurrency

\* time passes between two runs
Tick ==
    /\ bpc = "idle"
    /\ clock < ProcessStart + MaxTicks * TickSeconds
    /\ clock' = clock + TickSeconds
    /\ UNCHANGED <<lastFetchAtByCombo, lastOddsHashByEvent, lastPass,
                   runVars, storageVars, ingestVars, matcherVars, mathVars>>

\* a request arrives: its parameters are read and the window is fixed
PostWith(sportsLists, ttls, concurrencies, dryRuns) ==
    /\ bpc = "idle"
    /\ \E sportsList \in sportsLists, ttl \in ttls,
          conc \in concurrencies, dry \in dryRuns :
          req' = [sports |-> sportsList, ttlSeconds |-> ttl,
                  concurrency |-> conc, dryRun |-> dry]
    /\ prevRun' = [status |-> response.status, dryRun |-> req.dryRun,
                   fromT |-> fromT,
                   received |-> received]
    /\ fromT' = clock
    /\ bpc' = "probe"
    /\ queue' = <<>>
    /\ tasks' = [s \in Sports |-> NoTask]
    /\ details' = <<>>
    /\ errors' = <<>>
    /\ totalEvents' = 0
    /\ totalOdds' = 0
    /\ outOfCredits' = FALSE
    /\ response' = NoResponse
    /\ fetched' = {}
    /\ received' = NoEvents
    /\ unchanged' = NoEvents
    /\ passed' = NoEvents
    /\ UNCHANGED <<cacheVars, storageVars, ingestVars, matcherVars, mathVars>>

\* ?ttl=0 switches the TTL gate off; without ?ttl the default applies
PostTtls == {0, DEFAULT_TTL_SECONDS}

Post == PostWith(SportsLists, PostTtls, {DEFAULT_CONCURRENCY}, BOOLEAN)

\* a handler that runs the TTL gate before it looks at the probe
DbDown_AfterGate ==
    /\ bpc = "probe"
    /\ response' = [status |-> 503, ok |-> FALSE, stoppedEarly |-> FALSE]
    /\ errors' = <<[sport |-> "", msg |-> DbUnreachable]>>
    /\ bpc' = "idle"
    /\ lastFetchAtByCombo' =
          TtlGate([lastFetchAt |-> lastFetchAtByCombo, details |-> <<>>,
                   queue |-> <<>>],
                  req.sports, 1, req.ttlSeconds, clock).lastFetchAt
    /\ UNCHANGED <<req, fromT, queue, tasks, details, totalEvents, totalOdds,
                   outOfCredits, fetched, received, unchanged, passed,
                   prevRun, clock, lastOddsHashByEvent, lastPass,
                   storageVars, ingestVars, matcherVars, mathVars>>

\* ensureDb raises: the run ends with status 503; that response has no
\* summary
DbDown ==
    /\ bpc = "probe"
    /\ response' = [status |-> 503, ok |-> FALSE, stoppedEarly |-> FALSE]
    /\ errors' = <<[sport |-> "", msg |-> DbUnreachable]>>
    /\ bpc' = "idle"
    /\ UNCHANGED <<req, fromT, queue, tasks, details, totalEvents, totalOdds,
                   outOfCredits, fetched, received, unchanged, passed,
                   prevRun, cacheVars,
                   storageVars, ingestVars, matcherVars, mathVars>>

\* ensureDb returns: the TTL gate runs over the combinations and queues a
\* task for each one it lets through
DbUp ==
    /\ bpc = "probe"
    /\ \E g \in { TtlGate([lastFetchAt |-> lastFetchAtByCombo,
                           details |-> details, queue |-> <<>>],
                          req.sports, 1, req.ttlSeconds, clock) } :
          /\ lastFetchAtByCombo' = g.lastFetchAt
          /\ details' = g.details
          /\ queue' = g.queue
          /\ tasks' = [s \in Sports |->
                         IF \E i \in 1..Len(g.queue) : g.queue[i] = s
                         THEN [NoTask EXCEPT !.pc = "queued"]
                         ELSE NoTask]
          /\ lastPass' = [s \in Sports |->
                            IF \E i \in 1..Len(g.queue) : g.queue[i] = s
                            THEN [at |-> clock,
                                  gatedAt |-> IF req.ttlSeconds > 0
                                              THEN clock
                                              ELSE lastPass[s].gatedAt]
                            ELSE lastPass[s]]
    /\ bpc' = "running"
    /\ UNCHANGED <<clock, lastOddsHashByEvent, req, fromT, errors,
                   totalEvents, totalOdds, outOfCredits, response, fetched,
                   received, unchanged, passed, prevRun,
                   storageVars, ingestVars, matcherVars, mathVars>>

\* p-limit starts the next queued task: it returns at once when the quota
\* is exhausted and calls the adapter otherwise
TaskStartStep(s) ==
    /\ bpc = "running"
    /\ queue # <<>>
    /\ s = Head(queue)
    /\ ~PoolFull(Active, req.concurrency)
    /\ queue' = Tail(queue)
    /\ IF outOfCredits
       THEN /\ details' = Append(details, DetailRow(s, MARKETS[1], 0, 0,
                                                    "skipped", ""))
            /\ tasks' = [tasks EXCEPT ![s] = DoneTask]
            /\ fetched' = fetched
       ELSE /\ details' = details
            /\ tasks' = [tasks EXCEPT ![s].pc = "fetching", ![s].calls = 1]
            /\ fetched' = fetched \cup {s}
    /\ UNCHANGED <<bpc, req, fromT, errors, totalEvents, totalOdds,
                   outOfCredits, response, received, unchanged, passed,
                   prevRun, cacheVars,
                   storageVars, matcherVars, mathVars>>

TaskStart(s) == TaskStartStep(s) /\ UNCHANGED ingestVars

\* a run that writes even when it is dry
CallsIngest_Always(toIngest, dryRun) == toIngest # <<>>

\* neither `if (toIngest.length === 0) return` nor `if (dryRun) ... return`
\* is taken: ingestNormalizedEvents is called
CallsIngest(toIngest, dryRun) == toIngest # <<>> /\ ~dryRun

\* the adapter returns events: window and arbitrage filters, hash guard, and
\* the call of the repository write unless nothing is left or the run is dry
FetchOkFrom(s, payloads) ==
    /\ bpc = "running"
    /\ tasks[s].pc = "fetching"
    /\ \E events \in payloads :
        LET market == MARKETS[1]
            shortlisted ==
                SelectSeq(events,
                          LAMBDA e : /\ withinWindow(e, fromT,
                                                     fromT + WindowSeconds)
                                     /\ hasH2HArb(e, ARB_THRESHOLD))
        IN  \E g \in { HashGuard([hashes |-> lastOddsHashByEvent,
                                  details |-> details, toIngest |-> <<>>,
                                  unchanged |-> <<>>],
                                 shortlisted, 1, s, market) } :
              /\ received' = [received EXCEPT ![s] = events]
              /\ lastOddsHashByEvent' = g.hashes
              /\ unchanged' = [unchanged EXCEPT ![s] = g.unchanged]
              /\ details' =
                    IF events = <<>>
                    THEN Append(details,
                                DetailRow(s, market, 0, 0, "no-events", ""))
                    ELSE IF shortlisted = <<>>
                    THEN Append(details,
                                DetailRow(s, market, 0, 0, "no-arb", ""))
                    ELSE IF g.toIngest # <<>> /\ req.dryRun
                    THEN Append(g.details,
                                DetailRow(s, market, Len(g.toIngest), 0,
                                          "skipped", ""))
                    ELSE g.details
              /\ IF CallsIngest(g.toIngest, req.dryRun)
                 THEN /\ tasks' = [tasks EXCEPT ![s] =
                                      [NoTask EXCEPT
                                          !.pc = "ingesting",
                                          !.toIngest = g.toIngest]]
                      /\ passed' = [passed EXCEPT ![s] = g.toIngest]
                 ELSE /\ tasks' = [tasks EXCEPT ![s] = DoneTask]
                      /\ passed' = passed
    /\ UNCHANGED <<clock, lastFetchAtByCombo, lastPass, bpc, req, fromT,
                   queue, errors, totalEvents, totalOdds, outOfCredits,
                   response, fetched, prevRun,
                   storageVars, ingestVars, matcherVars, mathVars>>

FetchOk(s) == FetchOkFrom(s, Payloads(s))

\* the catch block of a task: the error is recorded for the combination and
\* a quota error stops the tasks that have not started
TaskCatch(s, e) ==
    /\ tasks' = [tasks EXCEPT ![s] = DoneTask]
    /\ errors' = Append(errors, [sport |-> s, msg |-> e])
    /\ details' = Append(details, DetailRow(s, MARKETS[1], 0, 0, "error", e))
    /\ outOfCredits' = (outOfCredits \/ is401Out(e))

\* the adapter raises: withBackoff goes to sleep after a rate-limit error
\* while retries are left and rethrows to the task's catch block otherwise
FetchFail(s) ==
    /\ bpc = "running"
    /\ tasks[s].pc = "fetching"
    /\ \E e \in FetchErrors :
          IF Rethrows(e, tasks[s].attempt, MAX_RETRIES_429)
          THEN TaskCatch(s, e)
          ELSE /\ tasks' = [tasks EXCEPT ![s].pc = "backoff",
                                         ![s].lastErr = e]
               /\ UNCHANGED <<errors, details, outOfCredits>>
    /\ UNCHANGED <<bpc, req, fromT, queue, totalEvents, totalOdds, response,
                   fetched, received, unchanged, passed, prevRun, cacheVars,
                   storageVars, ingestVars, matcherVars, mathVars>>

\* the backoff sleep ends: attempt++ and the adapter is called again
Wake(s) ==
    /\ bpc = "running"
    /\ tasks[s].pc = "backoff"
    /\ tasks' = [tasks EXCEPT ![s].pc = "fetching",
                              ![s].attempt = @ + 1,
                              ![s].calls = @ + 1]
    /\ UNCHANGED <<bpc, req, fromT, queue, details, errors, totalEvents,
                   totalOdds, outOfCredits, response, fetched, received,
                   unchanged, passed, prevRun, cacheVars,
                   storageVars, ingestVars, matcherVars, mathVars>>

\* ingestNormalizedEvents returns; the fingerprint table is there (fpOk) or
\* every call on it raises
IngestOk(s) ==
    /\ bpc = "running"
    /\ tasks[s].pc = "ingesting"
    /\ \E fpOk \in BOOLEAN :
        \E r \in { ingestNormalizedEvents(db, tasks[s].toIngest,
                                          fpOk, fpOk) } :
            /\ db' = r.db
            /\ totalEvents' = totalEvents + r.eventsTouched
            /\ totalOdds' = totalOdds + r.oddsWritten
            /\ details' = Append(details,
                                 DetailRow(s, MARKETS[1], r.eventsTouched,
                                           r.oddsWritten, "", ""))
    /\ tasks' = [tasks EXCEPT ![s] = DoneTask]
    /\ UNCHANGED <<bpc, req, fromT, queue, errors, outOfCredits, response,
                   fetched, received, unchanged, passed, prevRun, cacheVars,
                   ingestVars, matcherVars, mathVars>>

\* ingestNormalizedEvents raises before it has written anything
IngestFail(s) ==
    /\ bpc = "running"
    /\ tasks[s].pc = "ingesting"
    /\ TaskCatch(s, DbError)
    /\ UNCHANGED <<bpc, req, fromT, queue, totalEvents, totalOdds,
                   response, fetched, received, unchanged, passed,
                   prevRun, cacheVars,
                   storageVars, ingestVars, matcherVars, mathVars>>

\* a response that always reports success
ResponseOk_Always(errs) == TRUE

\* ok: errors.length === 0
ResponseOk(errs) == errs = <<>>

\* Promise.all(tasks) resolves and the response is sent
Respond ==
    /\ bpc = "running"
    /\ queue = <<>>
    /\ \A s \in Sports : tasks[s].pc \in {"none", "done"}
    /\ response' = [status |-> 200, ok |-> ResponseOk(errors),
                    stoppedEarly |-> outOfCredits]
    /\ bpc' = "idle"
    /\ UNCHANGED <<req, fromT, queue, tasks, details, errors, totalEvents,
                   totalOdds, outOfCredits, fetched, received, unchanged,
                   passed, prevRun, cacheVars,
                   storageVars, ingestVars, matcherVars, mathVars>>

NextBatch ==
    \/ Tick
    \/ Post
    \/ DbDown
    \/ DbUp
    \/ \E s \in Sports : TaskStart(s)
    \/ \E s \in Sports : FetchOk(s)
    \/ \E s \in Sports : FetchFail(s)
    \/ \E s \in Sports : Wake(s)
    \/ \E s \in Sports : IngestOk(s)
    \/ \E s \in Sports : IngestFail(s)
    \/ Respond

SpecBatch == InitBatch /\ [][NextBatch]_vars

-----------------------------------------------------------------------------
(* SpecPool: POST /api/ingest-all for three combinations, served by a
   process whose caches and storage are still empty *)

\* the sports query parameter
PoolSportsLists == { <<"baseball_mlb", "soccer_epl", "basketball_nba">> }

\* the concurrency query parameter
PoolConcurrencies == {1, 2, DEFAULT_CONCURRENCY}

Fixture3(lines) ==
    Event("Soccer", "EPL", "Arsenal", "Chelsea", KickOff, lines)

\* what the adapter can return for a sport: nothing, or its one fixture,
\* quoted with an arbitrage for baseball and basketball and without one for
\* soccer
PoolPayloads(sport) ==
    { <<>>,
      << IF sport = "baseball_mlb" THEN Fixture2(BaseLines)
         ELSE IF sport = "soccer_epl" THEN Fixture3(NoArbLines)
         ELSE Fixture1(BaseLines) >> }

\* no run has stamped a combination, set a hash or written a row
FreshProcess ==
    /\ clock = ProcessStart
    /\ \A s \in Sports :
          lastFetchAtByCombo[comboKey(s, REGION, MARKETS[1])] = 0
    /\ lastOddsHashByEvent = {}
    /\ db = EmptyDb

InitPool == InitBatch

PoolPost ==
    /\ FreshProcess
    /\ PostWith(PoolSportsLists, {DEFAULT_TTL_SECONDS}, PoolConcurrencies,
                BOOLEAN)

PoolFetchOk(s) == FetchOkFrom(s, PoolPayloads(s))

NextPool ==
    \/ PoolPost
    \/ DbDown
    \/ DbUp
    \/ \E s \in Sports : TaskStart(s)
    \/ \E s \in Sports : PoolFetchOk(s)
    \/ \E s \in Sports : FetchFail(s)
    \/ \E s \in Sports : Wake(s)
    \/ \E s \in Sports : IngestOk(s)
    \/ \E s \in Sports : IngestFail(s)
    \/ Respond

SpecPool == InitPool /\ [][NextPool]_vars

-----------------------------------------------------------------------------
(* SpecQueue: the same run with a pool of one or two and no dry run, under
   the fairness of the event loop *)

\* ?concurrency= below the number of combinations
QueueConcurrencies == {1, 2}

QueuePost ==
    /\ FreshProcess
    /\ PostWith(PoolSportsLists, {DEFAULT_TTL_SECONDS}, QueueConcurrencies,
                {FALSE})

NextQueue ==
    \/ QueuePost
    \/ DbDown
    \/ DbUp
    \/ \E s \in Sports : TaskStart(s)
    \/ \E s \in Sports : PoolFetchOk(s)
    \/ \E s \in Sports : FetchFail(s)
    \/ \E s \in Sports : Wake(s)
    \/ \E s \in Sports : IngestOk(s)
    \/ \E s \in Sports : IngestFail(s)
    \/ Respond

\* every settled promise and expired timer is served, and the probe, the
\* adapter and the repository settle every call
QueueFairness ==
    /\ WF_vars(DbDown \/ DbUp)
    /\ WF_vars(Respond)
    /\ \A s \in Sports :
          /\ WF_vars(TaskStart(s))
          /\ WF_vars(PoolFetchOk(s) \/ FetchFail(s))
          /\ WF_vars(Wake(s))
          /\ WF_vars(IngestOk(s) \/ IngestFail(s))

SpecQueue == InitPool /\ [][NextQueue]_vars /\ QueueFairness

-----------------------------------------------------------------------------
(* SpecFresh: ingest cycles with a working fingerprint store while time
   passes, each followed by queries of app/api/opportunities/route.ts *)

\* a cycle fetches one fixture
FreshLists == { <<e>> : e \in FreshEvents }

\* the books parameter: absent, two books, the third book
PageBookLists == { <<>>, <<"BookX", "booky">>, <<"BookZ">> }

\* the freshMins parameter: a minute, or absent
PageFreshMins == { 1, DefaultFreshMins }

\* the minRoi parameter: absent, or 0.03
PageMinRois == { DefaultMinRoi, Rat(3, 100) }

InitFresh == InitIngest

\* one ingest cycle at the current time: every row it upserts is stamped
IngestAt ==
    /\ \E events \in FreshLists :
          /\ IngestCall(events, TRUE, TRUE)
          /\ lastSeenAt' =
                StampOdds(lastSeenAt,
                          ingestNormalizedEvents(db, events, TRUE, TRUE).db.odds,
                          WrittenKeys(db, events), clock)
    /\ page' = NoPage
    /\ UNCHANGED <<dbAll, query, sideVars, matcherVars, mathVars, batchVars>>

\* a minute passes
Pass ==
    /\ clock < ProcessStart + MaxAge * TickSeconds
    /\ clock' = clock + TickSeconds
    /\ page' = NoPage
    /\ UNCHANGED <<db, ipc, ingested, ingestResult, fpWorked, oddsChanged,
                   repeated, prevWrote, dbAll, query, lastSeenAt, sideVars,
                   lastFetchAtByCombo, lastOddsHashByEvent, lastPass,
                   runVars, matcherVars, mathVars>>

\* GET /api/opportunities with cache=0 after at least one ingest cycle
Ask ==
    /\ ipc = "called"
    /\ \E names \in PageBookLists, mins \in PageFreshMins,
          minRoi \in PageMinRois :
          page' = Answer(db, lastSeenAt,
                         [books |-> names, freshMins |-> mins,
                          minRoi |-> minRoi, now |-> clock])
    /\ UNCHANGED <<db, ipc, ingested, ingestResult, fpWorked, oddsChanged,
                   repeated, prevWrote, dbAll, query, lastSeenAt, sideVars,
                   matcherVars, mathVars, batchVars>>

NextFresh == IngestAt \/ Pass \/ Ask

SpecFresh == InitFresh /\ [][NextFresh]_vars

-----------------------------------------------------------------------------
(* SpecAdapter: responses of the provider normalized by fetchTheOddsApi and
   written by ingestNormalizedEvents *)

\* h2h outcomes: both teams at 2.10, prices of 0.95 and 1.00, a price that
\* parses to Infinity, and a draw
MoneylineOutcomes ==
    { RawOutcome("Lakers", Num(210), Undefined),
      RawOutcome("Celtics", Num(210), Undefined),
      RawOutcome("Lakers", Num(95), Undefined),
      RawOutcome("Celtics", Num(100), Undefined),
      RawOutcome("Celtics", PosInf, Undefined),
      RawOutcome("Draw", Num(300), Undefined) }

\* spreads outcomes: a number, a numeral and no point
SpreadOutcomes ==
    { RawOutcome("Lakers", Num(191), Num(-35)),
      RawOutcome("Celtics", Num(191), Str("3.5")),
      RawOutcome("Celtics", Num(191), Undefined) }

\* totals outcomes: a number and a string that is no numeral
TotalOutcomes ==
    { RawOutcome("Over", Num(191), Num(2105)),
      RawOutcome("Under", Num(191), Str("n/a")) }

\* the lists of 1 to MaxOutcomes elements of a set
ListsOf(S) == UNION { [1..k -> S] : k \in 1..MaxOutcomes }

RawMarkets ==
    { [key |-> "h2h", outcomes |-> outs] : outs \in ListsOf(MoneylineOutcomes) }
    \cup { [key |-> "spreads", outcomes |-> outs] : outs \in ListsOf(SpreadOutcomes) }
    \cup { [key |-> "totals", outcomes |-> outs] : outs \in ListsOf(TotalOutcomes) }

\* a response: one event, Lakers at Celtics, with one bookmaker's market
RawResponses ==
    { << [sport_key |-> "basketball_nba",
          sport_title |-> [text |-> "Basketball", paren |-> "NBA"],
          commence_time |-> KickOff,
          away_team |-> "Lakers", home_team |-> "Celtics",
          bookmakers |-> << [title |-> "BookX", markets |-> <<m>>] >>] >> :
        m \in RawMarkets }

InitAdapter == InitIngest

\* fetchTheOddsApi returns, in a process that has written nothing yet
Fetch ==
    /\ ipc = "idle"
    /\ raw = <<>>
    /\ \E r \in RawResponses :
          /\ raw' = r
          /\ normalized' = NormalizeEvents(r)
    /\ UNCHANGED <<db, ipc, ingested, ingestResult, fpWorked, oddsChanged,
                   repeated, prevWrote, dbAll, query, lastSeenAt, page,
                   hashed, raceVars, lateVars,
                   matcherVars, mathVars, batchVars>>

\* a value Prisma's upserts may refuse: a price or line that is not finite
Refusable(events) ==
    \E i \in 1..Len(events) : \E n \in 1..Len(events[i].lines) :
        \/ ~IsFinite(events[i].lines[n].decimal)
        \/ (events[i].lines[n].market # "ML"
            /\ ~IsFinite(events[i].lines[n].line))

\* ingestNormalizedEvents(events) on what the adapter returned; it runs to
\* its end or, on a refusable value, raises
Store ==
    /\ raw # <<>>
    /\ \E raises \in BOOLEAN :
          /\ raises => Refusable(normalized)
          /\ IF raises
             THEN UNCHANGED <<db, ipc, ingested, ingestResult, fpWorked,
                              oddsChanged, repeated, prevWrote>>
             ELSE IngestCall(normalized, TRUE, TRUE)
    /\ raw' = <<>>
    /\ normalized' = <<>>
    /\ UNCHANGED <<dbAll, query, lastSeenAt, page, hashed,
                   raceVars, lateVars,
                   matcherVars, mathVars, batchVars>>

NextAdapter == Fetch \/ Store

SpecAdapter == InitAdapter /\ [][NextAdapter]_vars
-----------------------------------------------------------------------------
(* SpecWindow: POST /api/ingest-all, one run after the other, served by a
   provider that also returns events outside the window it was asked for *)

\* the basketball fixture, quoted with an arbitrage, at a start time
FixtureAt(t) == Fixture1At(t, BaseLines)

\* start times a tick before the first window, at its two ends and a tick
\* after it
WindowEvents ==
    { FixtureAt(KickOff - TickSeconds), FixtureAt(KickOff),
      FixtureAt(KickOff + WindowSeconds),
      FixtureAt(KickOff + WindowSeconds + TickSeconds) }

\* the answers of at most MaxPayload + 1 pairwise distinct events
WindowPayloads ==
    { l \in UNION { [1..k -> WindowEvents] : k \in 0..(MaxPayload + 1) } :
        Distinct(l) }

InitWindow == InitBatch

\* a request for one sport, without TTL gate and not dry
WindowPost ==
    PostWith(SportsLists, {0}, {DEFAULT_CONCURRENCY}, {FALSE})

WindowFetchOk(s) == FetchOkFrom(s, WindowPayloads)

NextWindow ==
    \/ Tick
    \/ WindowPost
    \/ DbUp
    \/ \E s \in Sports : TaskStart(s)
    \/ \E s \in Sports : WindowFetchOk(s)
    \/ \E s \in Sports : IngestOk(s)
    \/ Respond

SpecWindow == InitWindow /\ [][NextWindow]_vars
-----------------------------------------------------------------------------
(* SpecHash: the change-detection hashes of two fetches of one fixture *)

\* moneyline quotes, one of them at 0.95, a spread quote and a total quote
HashLines ==
    { Leg("BookX", "ML", "A", Num(200), Undefined),
      Leg("BookZ", "ML", "A", Num(205), Undefined),
      Leg("BookY", "ML", "B", Num(210), Undefined),
      Leg("BookY", "ML", "A", Num(95), Undefined),
      Leg("BookX", "SPREAD", "A", Num(250), Num(-35)),
      Leg("BookX", "TOTAL", "OVER", Num(191), Num(2105)) }

\* the fixture with at most MaxLines lines
HashEvents ==
    { Fixture1(ls) : ls \in UNION { [1..k -> HashLines] : k \in 0..MaxLines } }

InitHash == InitIngest

\* computeBestPriceHash and computeEventOddsHash on two fetches
Hash ==
    /\ hashed = NoHashes
    /\ \E e1 \in HashEvents, e2 \in HashEvents :
          hashed' =
              [events |-> <<e1, e2>>,
               best |-> <<computeBestPriceHash(e1), computeBestPriceHash(e2)>>,
               scheduler |->
                   <<computeEventOddsHash(e1), computeEventOddsHash(e2)>>]
    /\ UNCHANGED <<db, ipc, ingested, ingestResult, fpWorked, oddsChanged,
                   repeated, prevWrote, dbAll, query, lastSeenAt, page,
                   adapterVars, raceVars, lateVars, matcherVars, mathVars, batchVars>>

NextHash == Hash

SpecHash == InitHash /\ [][NextHash]_vars
-----------------------------------------------------------------------------
(* SpecRace: concurrent calls of getOrCreateEventAndMarket for one fixture,
   as made by the tasks of one batch for the markets of a sport; the Event
   and Market tables have a primary key on id and no other unique index *)

\* the market types of the calls
RaceTypes == {"ML", "SPREAD", "TOTAL"}

\* the id a create gives its row
NextId(table) == Cardinality(table) + 1

\* the markets of an event row: include: { markets: true }
MarketsOf(tables, eventId) == { m \in tables.markets : m.eventId = eventId }

InitRace == InitIngest

\* prisma.event.findFirst on the natural key of the fixture: one of the
\* rows with the key, or none (0)
FindFirst(tables) ==
    IF tables.events # {} THEN tables.events ELSE {0}

\* a call starts for a market type and its findFirst resolves
Find(w) ==
    /\ writers[w].pc = "idle"
    /\ \E type \in RaceTypes, id \in FindFirst(rowsById) :
          writers' = [writers EXCEPT ![w] =
                         [pc |-> "found", type |-> type, event |-> id,
                          markets |-> MarketsOf(rowsById, id)]]
    /\ UNCHANGED <<rowsById, db, ipc, ingested, ingestResult, fpWorked,
                   oddsChanged, repeated, prevWrote, dbAll, query,
                   lastSeenAt, page, adapterVars, hashed, lateVars,
                   matcherVars, mathVars, batchVars>>

\* the rest of the call: event.create with its market when findFirst found
\* nothing, market.create when the event it found had no market of the
\* type, no write otherwise
Create(w) ==
    /\ writers[w].pc = "found"
    /\ rowsById' =
          IF writers[w].event = 0
          THEN [events |-> rowsById.events \cup {NextId(rowsById.events)},
                markets |-> rowsById.markets
                    \cup {[id |-> NextId(rowsById.markets),
                           eventId |-> NextId(rowsById.events),
                           type |-> writers[w].type]}]
          ELSE IF \E m \in writers[w].markets : m.type = writers[w].type
          THEN rowsById
          ELSE [rowsById EXCEPT !.markets =
                    @ \cup {[id |-> NextId(rowsById.markets),
                             eventId |-> writers[w].event,
                             type |-> writers[w].type]}]
    /\ writers' = [writers EXCEPT ![w].pc = "done"]
    /\ UNCHANGED <<db, ipc, ingested, ingestResult, fpWorked,
                   oddsChanged, repeated, prevWrote, dbAll, query,
                   lastSeenAt, page, adapterVars, hashed, lateVars,
                   matcherVars, mathVars, batchVars>>

NextRace == \E w \in 1..MaxWriters : Find(w) \/ Create(w)

SpecRace == InitRace /\ [][NextRace]_vars
-----------------------------------------------------------------------------
(* SpecFaults: ingestNormalizedEvents called again and again, each call with
   a fingerprint store that works, fails at the lookup, fails at the upserts
   or fails at both *)

\* what the provider returns: a fixture, the same with moved prices, and a
\* second fixture
FaultEvents ==
    { Fixture1(BaseLines), Fixture1(MovedLines), Fixture2(BaseLines) }

\* the lists of at most MaxEvents pairwise distinct events
FaultLists ==
    { l \in UNION { [1..k -> FaultEvents] : k \in 0..MaxEvents } :
        Distinct(l) }

\* one call of ingestNormalizedEvents, remembering what failed
FaultyIngest ==
    /\ \E events \in FaultLists, lookupOk \in BOOLEAN, upsertOk \in BOOLEAN :
          /\ IngestCall(events, lookupOk, upsertOk)
          /\ faults' = [lookupOk |-> lookupOk, upsertOk |-> upsertOk]
    /\ UNCHANGED <<dbAll, query, lastSeenAt, page, adapterVars, hashed,
                   raceVars, checked, calledAt, runs, limiter, cache,
                   matcherVars, mathVars, batchVars>>

InitFaults == InitIngest

NextFaults == FaultyIngest

SpecFaults == InitFaults /\ [][NextFaults]_vars

-----------------------------------------------------------------------------
(* SpecPrecheck: the scheduler's filters and the matcher on one fetched
   event *)

\* quotes of the three markets: with an arbitrage at 2.10 / 2.10, without
\* one at 2.10 / 1.80, and spread quotes of different lines
PrecheckLines ==
    { Leg("BookX", "ML", "A", Num(210), Undefined),
      Leg("BookY", "ML", "B", Num(210), Undefined),
      Leg("BookY", "ML", "B", Num(180), Undefined),
      Leg("BookX", "SPREAD", "A", Num(210), Num(-35)),
      Leg("BookY", "SPREAD", "B", Num(210), Num(-35)),
      Leg("BookY", "SPREAD", "B", Num(210), Num(35)),
      Leg("BookY", "SPREAD", "B", Num(180), Num(-35)),
      Leg("BookX", "TOTAL", "OVER", Num(210), Num(2105)),
      Leg("BookY", "TOTAL", "UNDER", Num(210), Num(2105)),
      Leg("BookY", "TOTAL", "UNDER", Num(180), Num(2105)) }

\* the lists of at most MaxLines quotes
PrecheckLists ==
    UNION { [1..k -> PrecheckLines] : k \in 0..MaxLines }

\* the task's two filters on an event fetched at the start of its window,
\* and findTwoWayArbs on the event's quotes
Precheck ==
    /\ checked = NoCheck
    /\ \E ls \in PrecheckLists :
          \E e \in { Fixture1(ls) } :
              checked' =
                  [event |-> e,
                   shortlisted |->
                       /\ withinWindow(e, KickOff, KickOff + WindowSeconds)
                       /\ hasH2HArb(e, ARB_THRESHOLD),
                   pairs |-> findTwoWayArbs(ls, 1)]
    /\ UNCHANGED <<db, ipc, ingested, ingestResult, fpWorked, oddsChanged,
                   repeated, prevWrote, dbAll, query, lastSeenAt, page,
                   adapterVars, hashed, raceVars, faults, calledAt, runs,
                   limiter, cache,
                   matcherVars, mathVars, batchVars>>

InitPrecheck == InitIngest

NextPrecheck == Precheck

SpecPrecheck == InitPrecheck /\ [][NextPrecheck]_vars

-----------------------------------------------------------------------------
(* SpecGate: POST /api/ingest-all for two combinations with the default TTL
   and a pool of one, one run after the other, with a provider that answers
   with no events or fails *)

\* the sports query parameter
GateSportsLists == { <<"baseball_mlb", "basketball_nba">> }

InitGate == InitBatch

GatePost ==
    PostWith(GateSportsLists, {DEFAULT_TTL_SECONDS}, {1}, {FALSE})

\* the start of a task, remembering when the adapter was called
GateTaskStart(s) ==
    /\ TaskStartStep(s)
    /\ calledAt' = IF outOfCredits THEN calledAt
                   ELSE [calledAt EXCEPT ![s] = clock]
    /\ UNCHANGED <<ipc, ingested, ingestResult, fpWorked, oddsChanged,
                   repeated, prevWrote, dbAll, query, lastSeenAt, page,
                   adapterVars, hashed, raceVars, faults, checked, runs,
                   limiter, cache>>

GateFetchOk(s) == FetchOkFrom(s, {<<>>})

NextGate ==
    \/ Tick
    \/ GatePost
    \/ DbUp
    \/ \E s \in Sports : GateTaskStart(s)
    \/ \E s \in Sports : GateFetchOk(s)
    \/ \E s \in Sports : FetchFail(s)
    \/ \E s \in Sports : Wake(s)
    \/ Respond

SpecGate == InitGate /\ [][NextGate]_vars

-----------------------------------------------------------------------------
(* SpecOverlap: two requests POST /api/ingest-all served by one process at
   the same time; each passes the TTL gate in one synchronous loop after its
   probe has returned, and time passes while they are served *)

\* the sports query parameter
OverlapSportsLists ==
    { <<"basketball_nba">>, <<"baseball_mlb", "basketball_nba">> }

\* the ttl query parameter: the default and twice the default
OverlapTtls == {DEFAULT_TTL_SECONDS, 2 * DEFAULT_TTL_SECONDS}

\* the two requests
RunIds == {1, 2}

OverlapRest ==
    UNCHANGED <<lastOddsHashByEvent, lastPass, runVars, storageVars,
                ipc, ingested, ingestResult, fpWorked, oddsChanged, repeated,
                prevWrote, dbAll, query, lastSeenAt, page, adapterVars,
                hashed, raceVars, faults, checked, calledAt, limiter,
                cache,
                matcherVars, mathVars>>

\* time passes, also while requests are served
OverlapTick ==
    /\ clock < ProcessStart + MaxTicks * TickSeconds
    /\ clock' = clock + TickSeconds
    /\ UNCHANGED <<lastFetchAtByCombo, runs>>
    /\ OverlapRest

\* a request arrives and awaits ensureDb
OverlapPost(r) ==
    /\ runs[r].pc = "idle"
    /\ \E sportsList \in OverlapSportsLists, ttl \in OverlapTtls :
          runs' = [runs EXCEPT ![r] =
                      [NoRun EXCEPT !.pc = "probe", !.sports = sportsList,
                                    !.ttlSeconds = ttl]]
    /\ UNCHANGED <<clock, lastFetchAtByCombo>>
    /\ OverlapRest

\* ensureDb has returned: the loop over the combinations runs to its end
\* without an await, each shouldSkipByTTL reading and stamping the map
OverlapGate(r) ==
    /\ runs[r].pc = "probe"
    /\ \E g \in { TtlGate([lastFetchAt |-> lastFetchAtByCombo,
                           details |-> <<>>, queue |-> <<>>],
                          runs[r].sports, 1, runs[r].ttlSeconds, clock) } :
          /\ lastFetchAtByCombo' = g.lastFetchAt
          /\ runs' = [runs EXCEPT ![r].pc = "running",
                                  ![r].gateAt = clock,
                                  ![r].queued =
                                      { g.queue[i] : i \in 1..Len(g.queue) },
                                  ![r].skipped =
                                      { g.details[i].sport :
                                          i \in 1..Len(g.details) }]
    /\ UNCHANGED clock
    /\ OverlapRest

\* the tasks of the request have settled and the response is sent
OverlapRespond(r) ==
    /\ runs[r].pc = "running"
    /\ runs' = [runs EXCEPT ![r].pc = "idle"]
    /\ UNCHANGED <<clock, lastFetchAtByCombo>>
    /\ OverlapRest

InitOverlap == InitBatch

NextOverlap ==
    \/ OverlapTick
    \/ \E r \in RunIds : OverlapPost(r)
    \/ \E r \in RunIds : OverlapGate(r)
    \/ \E r \in RunIds : OverlapRespond(r)

SpecOverlap == InitOverlap /\ [][NextOverlap]_vars

-----------------------------------------------------------------------------
(* SpecLimit: the middleware of a production build (NODE_ENV = production)
   serving the requests of one client; times are in seconds *)

\* limit and windowMs of /api/opportunities
OpportunitiesLimit == 30

OpportunitiesWindow == 60

\* limit and windowMs of /api/ingest-odds
IngestLimit == 1

IngestWindow == 15

\* the requests: a client's x-forwarded-for header and the path, for the
\* two paths of the matcher, and a request without the header for another
\* path
LimitRequests ==
    { <<"10.0.0.1", "/api/opportunities">>, <<"10.0.0.1", "/api/ingest-odds">>,
      <<"", "/api/health">> }

\* req.headers.get('x-forwarded-for')?.split(',')[0]?.trim() || 'unknown'
ClientIp(header) == IF header = "" THEN "unknown" ELSE header

\* `${ip}:${path}:${limit}:${windowMs}`
getKey(header, path, limit, windowMs) ==
    <<ClientIp(header), path, limit, windowMs>>

\* the bucket stored under a key, or { count: 0, ts: now }
BucketOf(buckets, key, now) ==
    IF \E b \in buckets : b.key = key
    THEN CHOOSE b \in buckets : b.key = key
    ELSE [key |-> key, count |-> 0, ts |-> now]

\* if (now - bucket.ts > windowMs) { bucket.count = 0; bucket.ts = now }
Refreshed(bucket, windowMs, now) ==
    IF now - bucket.ts > windowMs
    THEN [bucket EXCEPT !.count = 0, !.ts = now]
    ELSE bucket

\* NextResponse.next(): the request goes on to the route
NextAnswer == [status |-> 200, error |-> "", next |-> TRUE]

\* one more request of the client to the path has reached the route at the
\* time: reached counts them per client, path and time
Reach(reached, ip, path, at) ==
    IF \E c \in reached : c.ip = ip /\ c.path = path /\ c.at = at
    THEN { IF c.ip = ip /\ c.path = path /\ c.at = at
           THEN [c EXCEPT !.n = @ + 1] ELSE c : c \in reached }
    ELSE reached \cup {[ip |-> ip, path |-> path, at |-> at, n |-> 1]}

\* the middleware on a path it limits
Limited(header, path, limit, windowMs) ==
    \E key \in { getKey(header, path, limit, windowMs) } :
      \E bucket \in { Refreshed(BucketOf(limiter.buckets, key, limiter.now),
                                windowMs, limiter.now) } :
        IF bucket.count >= limit
        THEN limiter' =
                 [limiter EXCEPT
                     !.last = [status |-> 429, error |-> "rate_limited",
                               next |-> FALSE]]
        ELSE limiter' =
                 [limiter EXCEPT
                     !.buckets = { b \in @ : b.key # key }
                                 \cup {[bucket EXCEPT !.count = @ + 1]},
                     !.reached = Reach(@, ClientIp(header), path,
                                       limiter.now),
                     !.last = NextAnswer]

LimitRest ==
    UNCHANGED <<db, ipc, ingested, ingestResult, fpWorked, oddsChanged,
                repeated, prevWrote, dbAll, query, lastSeenAt, page,
                adapterVars, hashed, raceVars, faults, checked, calledAt,
                runs, cache, matcherVars, mathVars, batchVars>>

\* middleware(req): a path outside the two limited ones goes through
Middleware ==
    /\ \E request \in LimitRequests :
          IF request[2] = "/api/ingest-odds"
          THEN Limited(request[1], request[2], IngestLimit, IngestWindow)
          ELSE IF request[2] = "/api/opportunities"
          THEN Limited(request[1], request[2], OpportunitiesLimit,
                       OpportunitiesWindow)
          ELSE limiter' = [limiter EXCEPT !.last = NextAnswer]
    /\ LimitRest

\* time passes: a full window of /api/opportunities after the process has
\* started, a window of /api/ingest-odds after that
LimitTick ==
    /\ limiter.now < OpportunitiesWindow + IngestWindow
    /\ limiter' =
          [limiter EXCEPT
              !.now = IF @ = 0 THEN OpportunitiesWindow ELSE @ + IngestWindow]
    /\ LimitRest

InitLimit == InitIngest

NextLimit == Middleware \/ LimitTick

SpecLimit == InitLimit /\ [][NextLimit]_vars

-----------------------------------------------------------------------------
(* SpecCache: GET /api/opportunities with its response cache, after an
   ingest cycle and while time passes in steps of the cache's lifetime *)

\* CACHE_TTL_MS, in seconds
CACHE_TTL_SECONDS == 20

\* a fixture that started two minutes before the process, quoted with an
\* arbitrage of 2.4 %
CacheLists == { << Fixture1At(KickOff - 2 * 60, BaseLines) >> }

\* the opportunities of app/data/mock-arbs.json, a file of the deployment
MockArbs == << "mock-arbs.json" >>

\* buildCacheKey: sports, markets, sorted books, minRoi, limit and offset,
\* the first two absent and the last two at their defaults
buildCacheKey(q) ==
    << <<>>, <<>>, bookWhitelist(q.books), q.minRoi, DefaultLimit, 0 >>

\* the demo branch: the filtered mock opportunities, summary.demo true
DemoAnswer(q) == [q |-> q, demo |-> TRUE, opportunities |-> MockArbs]

\* the response computed past the cache
Computed(tables, seen, q) ==
    IF q.demo THEN DemoAnswer(q)
    ELSE [q |-> q, demo |-> FALSE,
          opportunities |-> Answer(tables, seen, q).opportunities]

\* cached && cached.expiry > Date.now()
Hit(entries, key, now) ==
    \E c \in entries : c.key = key /\ c.expiry > now

\* cache.set(cacheKey, { data, expiry })
CacheSet(entries, key, data, now) ==
    { c \in entries : c.key # key }
        \cup {[key |-> key, data |-> data, expiry |-> now + CACHE_TTL_SECONDS]}

CacheRest ==
    UNCHANGED <<dbAll, query, page, adapterVars, hashed, raceVars, faults,
                checked, calledAt, runs, limiter, matcherVars, mathVars>>

\* the one ingest cycle: every row it upserts is stamped
CacheIngest ==
    /\ ipc = "idle"
    /\ \E events \in CacheLists :
          /\ IngestCall(events, TRUE, TRUE)
          /\ lastSeenAt' =
                StampOdds(lastSeenAt,
                          ingestNormalizedEvents(db, events, TRUE, TRUE).db.odds,
                          WrittenKeys(db, events), clock)
    /\ UNCHANGED <<cache, batchVars>>
    /\ CacheRest

\* the lifetime of a cache entry passes
CachePass ==
    /\ clock < ProcessStart + MaxAge * CACHE_TTL_SECONDS
    /\ clock' = clock + CACHE_TTL_SECONDS
    /\ UNCHANGED <<db, ipc, ingested, ingestResult, fpWorked, oddsChanged,
                   repeated, prevWrote, lastSeenAt, cache,
                   lastFetchAtByCombo, lastOddsHashByEvent, lastPass, runVars>>
    /\ CacheRest

\* GET: skip stands for cache=0 (or DEMO=1 in the environment), demo for
\* demo=1; a request that does not skip the cache is answered from an entry
\* of its key that has not expired, and stores what it computed
Get ==
    /\ \E mins \in PageFreshMins, minRoi \in PageMinRois,
          demo \in BOOLEAN, skip \in BOOLEAN :
        \E q \in { [books |-> <<>>, freshMins |-> mins, minRoi |-> minRoi,
                    demo |-> demo, skip |-> skip, now |-> clock] } :
          IF ~skip /\ Hit(cache.entries, buildCacheKey(q), clock)
          THEN cache' =
                   [cache EXCEPT
                       !.last =
                           [q |-> q, hit |-> TRUE,
                            data |-> (CHOOSE c \in cache.entries :
                                         c.key = buildCacheKey(q)).data]]
          ELSE \E resp \in { Computed(db, lastSeenAt, q) } :
                 cache' =
                     [entries |-> IF skip THEN cache.entries
                                  ELSE CacheSet(cache.entries, buildCacheKey(q),
                                                resp, clock),
                      last |-> [q |-> q, hit |-> FALSE, data |-> resp]]
    /\ UNCHANGED <<db, ipc, ingested, ingestResult, fpWorked, oddsChanged,
                   repeated, prevWrote, lastSeenAt, batchVars>>
    /\ CacheRest

InitCache == InitIngest

NextCache == CacheIngest \/ CachePass \/ Get

SpecCache == InitCache /\ [][NextCache]_vars

-----------------------------------------------------------------------------
(* Properties of the matcher, checked under SpecMatcher *)

PairIndices == 1..Len(pairs)

LegIndices == 1..Len(legs)

\* the group of the input a pair was built from
PairKey(p) == GroupKey(p.a)

\* a price that is a finite number greater than 1.0
ValidPrice(v) == IsNum(v) /\ v[2] > 100

\* k = 1/a + 1/b < 1 for prices of a and b hundredths, without division
KBelowOne(a, b) == 100 * (a + b) < a * b

\* r = 1/k - 1 for prices of a and b hundredths, without division
IsRoiOf(r, a, b) == r = Rat(a * b - 100 * (a + b), 100 * (a + b))

\* C1: every emitted pair has its two legs quoted by different books, so a
\* group whose two best legs come from one book emits no pair.
C1_DifferentBooks ==
    mpc = "done" => \A i \in PairIndices : pairs[i].a.book # pairs[i].b.book

\* C2: every emitted SPREAD or TOTAL pair has two legs with the same numeric
\* line, which is the pair's line; legs with different, missing or
\* not-a-number lines are never paired.
C2_ExactLine ==
    mpc = "done" =>
        \A i \in PairIndices :
            pairs[i].market # "ML" =>
                /\ IsNum(pairs[i].a.line)
                /\ IsNum(pairs[i].b.line)
                /\ pairs[i].a.line = pairs[i].b.line
                /\ pairs[i].line = pairs[i].a.line

\* a spread pair was emitted from an input that also holds a spread leg at
\* another line or without a line
C2_Witness ==
    /\ mpc = "done"
    /\ \E i \in PairIndices, j \in LegIndices :
          /\ pairs[i].market = "SPREAD"
          /\ legs[j].market = "SPREAD"
          /\ legs[j].line # pairs[i].line

\* the pair emitted for the group of the selection c, if any
EmittedFor(c) ==
    { i \in PairIndices : pairs[i].a = c.a /\ pairs[i].b = c.b }

\* the selections of valid, cross-book best legs
ValidCrossBook(c) ==
    /\ c.a # NoLeg
    /\ c.b # NoLeg
    /\ ValidPrice(c.a.decimal)
    /\ ValidPrice(c.b.decimal)
    /\ c.a.book # c.b.book

RoiRule(c) ==
    /\ (EmittedFor(c) # {}) <=> KBelowOne(c.a.decimal[2], c.b.decimal[2])
    /\ \A i \in EmittedFor(c) :
          /\ IsRoiOf(pairs[i].roi, c.a.decimal[2], c.b.decimal[2])
          /\ pairs[i].roi.n > 0
          /\ pairs[i].roi.d > 0

\* C3 as stated: for every group whose best legs are valid and from different
\* books, a pair is emitted exactly when k < 1, its roi is 1/k - 1 > 0, and no
\* emitted pair has roi <= 0.
C3_Original ==
    mpc = "done" =>
        /\ \A g \in 1..Len(chosen) :
              ValidCrossBook(chosen[g]) => RoiRule(chosen[g])
        /\ \A i \in PairIndices : pairs[i].roi.n > 0 /\ pairs[i].roi.d > 0

\* C3 amended: the same for MONEYLINE groups and for SPREAD/TOTAL groups
\* whose line is a number; a SPREAD/TOTAL group without a numeric line emits
\* nothing, whatever k is.
C3_RoiRule ==
    mpc = "done" =>
        /\ \A g \in 1..Len(chosen) :
              ValidCrossBook(chosen[g]) =>
                  IF chosen[g].market = "ML" \/ IsNum(chosen[g].line)
                  THEN RoiRule(chosen[g])
                  ELSE EmittedFor(chosen[g]) = {}
        /\ \A i \in PairIndices : pairs[i].roi.n > 0 /\ pairs[i].roi.d > 0

\* one group with valid cross-book best legs and k < 1 emitted its pair and
\* another with k >= 1 emitted none
C3_Witness ==
    /\ mpc = "done"
    /\ \E g, h \in 1..Len(chosen) :
          /\ ValidCrossBook(chosen[g])
          /\ ValidCrossBook(chosen[h])
          /\ EmittedFor(chosen[g]) # {}
          /\ EmittedFor(chosen[h]) = {}
          /\ chosen[h].market = "ML"
          /\ ~KBelowOne(chosen[h].a.decimal[2], chosen[h].b.decimal[2])

\* C6: each leg of an emitted pair has the highest price of its side of its
\* group: no input leg of the same group and outcome has a strictly higher
\* price.
C6_BestPrice ==
    mpc = "done" =>
        \A i \in PairIndices, j \in LegIndices :
            /\ (GroupKey(legs[j]) = PairKey(pairs[i])
                /\ legs[j].outcome = pairs[i].a.outcome)
               => ~JsLess(pairs[i].a.decimal, legs[j].decimal)
            /\ (GroupKey(legs[j]) = PairKey(pairs[i])
                /\ legs[j].outcome = pairs[i].b.outcome)
               => ~JsLess(pairs[i].b.decimal, legs[j].decimal)

\* the input without the legs whose price is <= 1.0 or not finite
WithoutInvalid(ls) == SelectSeq(ls, LAMBDA l : ValidPrice(l.decimal))

\* C7: the matcher returns what it returns on the input with the invalid
\* legs removed.
C7_InvalidAbsent ==
    mpc = "done" => pairs = findTwoWayArbs(WithoutInvalid(legs), 1)

\* C8: the output is ordered by roi descending and holds at most one pair
\* per (market, line) group of the input.
C8_SortedOnePerGroup ==
    mpc = "done" =>
        /\ \A i \in PairIndices :
              i + 1 \in PairIndices => RLeq(pairs[i + 1].roi, pairs[i].roi)
        /\ \A i, j \in PairIndices :
              i # j => PairKey(pairs[i]) # PairKey(pairs[j])
        /\ \A i \in PairIndices :
              \E j \in LegIndices : GroupKey(legs[j]) = PairKey(pairs[i])

\* two pairs were emitted and the sort moved the later group's pair first
C8_Witness ==
    /\ mpc = "done"
    /\ Len(pairs) = 2
    /\ RLess(pairs[2].roi, pairs[1].roi)
    /\ pairs # CollectPairs(legs, GroupKeys(legs), pick)

-----------------------------------------------------------------------------
(* Properties of the ROI and stake arithmetic, checked under SpecMath *)

\* C4: for prices a, b > 1, roiPct(a, b) > 0 exactly when 1/a + 1/b < 1, it
\* is 0 whenever 1/a + 1/b >= 1, and when positive it is ((1 - s)/s) * 100.
C4_RoiPct ==
    "roiPct" \in called =>
        LET a == priceA[2]
            b == priceB[2]
        IN  /\ RLess(Zero, roiResult) <=> KBelowOne(a, b)
            /\ ~KBelowOne(a, b) => roiResult = Zero
            /\ KBelowOne(a, b) =>
                  roiResult = Rat(a * b - 100 * (a + b), a + b)

\* roiPct returned a positive percentage for two different prices
C4_Witness ==
    /\ "roiPct" \in called
    /\ priceA # priceB
    /\ RLess(Zero, roiResult)

\* C/k for capital t and prices of a and b hundredths: t * a*b / (100 (a + b))
PayoutOf(t, a, b) == Rat(t.n * a * b, t.d * 100 * (a + b))

-----------------------------------------------------------------------------
(* Properties of the repository write, checked under SpecIngest *)

IngestIndices == 1..Len(ingested)

\* events of the list that share a fingerprint key have the same best prices
SameKeySameHash ==
    \A i, j \in IngestIndices :
        fingerprintKey(ingested[i]) = fingerprintKey(ingested[j])
            => computeBestPriceHash(ingested[i])
                 = computeBestPriceHash(ingested[j])

\* the call wrote nothing
WroteNothing ==
    /\ ingestResult = [eventsTouched |-> 0, oddsWritten |-> 0]
    /\ ~oddsChanged

\* C9 as stated: the second of two calls in a row with the same list and a
\* working fingerprint store returns oddsWritten = 0 and eventsTouched = 0
\* and changes no stored odds row.
C9_Original == (repeated /\ fpWorked) => WroteNothing

\* C9 amended: the same, for a list in which events that share a
\* fingerprint key (teams, start time, league, sport) have equal best A and
\* best B prices.
C9_Idempotent == (repeated /\ fpWorked /\ SameKeySameHash) => WroteNothing

\* the first call wrote odds of two events and the second call, with the
\* same list, wrote nothing
C9_Witness ==
    /\ repeated
    /\ fpWorked
    /\ SameKeySameHash
    /\ prevWrote
    /\ Len(ingested) = 2
    /\ fingerprintKey(ingested[1]) # fingerprintKey(ingested[2])
    /\ WroteNothing


\* C11: change detection does not affect the arbitrage results: after any
\* sequence of ingest cycles a query, whatever its book allow-list, returns
\* the opportunities it would return had every fetched event been written.
C11_SameResults ==
    ipc = "called" => query.opportunities = query.reference
-----------------------------------------------------------------------------
(* Properties of the batch trigger, checked under SpecBatch *)

\* the events of a list
Elems(list) == { list[i] : i \in 1..Len(list) }

\* best valid A and B price of an event
BestPrices(e) ==
    <<BestValidPrice(e.lines, "A", Num(0)),
      BestValidPrice(e.lines, "B", Num(0))>>

\* the same teams and start time
SameFixture(e, f) ==
    e.teamA = f.teamA /\ e.teamB = f.teamB /\ e.startsAt = f.startsAt

\* e is the only event of its fixture in the list
OnlyOfFixture(e, list) == \A g \in Elems(list) : SameFixture(g, e) => g = e

\* a run has been served, neither it nor the run before was dry, the run
\* before received f for the sport and this run received e: the same
\* fixture at the same best prices
SameEventTwice(s, e, f) ==
    /\ bpc = "idle"
    /\ response.status = 200
    /\ ~req.dryRun
    /\ ~prevRun.dryRun
    /\ e \in Elems(received[s])
    /\ f \in Elems(prevRun.received[s])
    /\ SameFixture(e, f)
    /\ BestPrices(e) = BestPrices(f)

\* the run recorded e as no-change, passed it to no repository write and
\* added no odds for it
ReportedNoChange(s, e) ==
    /\ e \in Elems(unchanged[s])
    /\ e \notin Elems(passed[s])
    /\ \E i \in 1..Len(details) :
          details[i] = DetailRow(s, MARKETS[1], 1, 0, "no-change", "")
    /\ Len(received[s]) = 1 => totalOdds = 0

\* e starts inside the window that opens at from and has an arbitrage
Shortlisted(e, from) ==
    /\ withinWindow(e, from, from + WindowSeconds)
    /\ hasH2HArb(e, ARB_THRESHOLD)

\* C10 as stated: when two consecutive non-dry runs receive the same event
\* with identical best A and best B prices, the second run records it as
\* no-change, calls no repository write for it and adds 0 to totalOdds.
C10_Original ==
    \A s \in Sports : \A e, f \in ProviderEvents(s) :
        SameEventTwice(s, e, f) => ReportedNoChange(s, e)

\* C10 amended: the same, for an event that has an arbitrage on its best
\* prices, starts inside the window of both runs, and is the only event of
\* its fixture in what each run received.
C10_NoChange ==
    \A s \in Sports : \A e, f \in ProviderEvents(s) :
        ( /\ SameEventTwice(s, e, f)
          /\ Shortlisted(e, fromT)
          /\ Shortlisted(f, prevRun.fromT)
          /\ OnlyOfFixture(e, received[s])
          /\ OnlyOfFixture(f, prevRun.received[s]) )
        => ReportedNoChange(s, e)

\* after odds were written, a second non-dry run received the same event
\* again and reported it as no-change with no odds written
C10_Witness ==
    \E s \in Sports : \E e \in ProviderEvents(s) :
        /\ SameEventTwice(s, e, e)
        /\ Shortlisted(e, fromT)
        /\ Shortlisted(e, prevRun.fromT)
        /\ ReportedNoChange(s, e)
        /\ db.odds # {}
        /\ totalOdds = 0


\* the run has a detail row with this note for the sport
HasRow(s, note) ==
    \E i \in 1..Len(details) :
        details[i].sport = s /\ details[i].note = note

\* the sports the request names
Requested == Elems(req.sports)

\* the TTL gate of a run is being passed by this step
GateStep == bpc = "probe" /\ bpc' = "running"

\* after the gate: the combination has a ttl-skip row and no task
TtlSkipped(s) ==
    /\ \E i \in 1..Len(details') :
          details'[i] = DetailRow(s, MARKETS[1], 0, 0, "ttl-skip", "")
    /\ tasks'[s].pc = "none"

\* a combination with a ttl-skip row has no task and no adapter call in the
\* run, and a run with ttlSeconds = 0 has no ttl-skip row
TtlSkipMeansNoFetch ==
    \A s \in Sports :
        /\ HasRow(s, "ttl-skip") =>
              /\ tasks[s].pc = "none"
              /\ s \notin fetched
              /\ req.ttlSeconds > 0
        /\ (bpc = "running" /\ s \in Requested /\ ~HasRow(s, "ttl-skip")) =>
              tasks[s].pc # "none"

-----------------------------------------------------------------------------
(* Properties of the worker pool, checked under SpecPool and SpecQueue *)

\* C13: during a run the tasks that have started and not yet finished,
\* sleeping and writing ones included, are at most the configured
\* concurrency; the others wait in the queue, and every queued task
\* eventually starts.
C13_BoundedPool ==
    /\ [](Cardinality(Active) <= req.concurrency)
    /\ [](\A s \in Sports :
             tasks[s].pc = "queued" <=> \E i \in 1..Len(queue) : queue[i] = s)
    /\ \A s \in Sports :
          (tasks[s].pc = "queued") ~> (tasks[s].pc # "queued")

\* with a pool of two, one task sleeps in its backoff, one writes to storage
\* and the third waits in the queue
C13_Witness ==
    /\ req.concurrency = 2
    /\ \E s, t, u \in Sports :
          /\ tasks[s].pc = "backoff"
          /\ tasks[t].pc = "ingesting"
          /\ tasks[u].pc = "queued"
          /\ queue = <<u>>

\* the adapter call of the task is pending or the task sleeps between two
\* calls
InBackoffLoop(s) == tasks[s].pc \in {"fetching", "backoff"}

\* a rate-limit error: status 429 or a message with EXCEEDED_FREQ_LIMIT
RateLimitError(e) == e.status = 429 \/ e.token = "EXCEEDED_FREQ_LIMIT"

\* a quota error: status 401 or a message with OUT_OF_USAGE_CREDITS
QuotaError(e) == e.status = 401 \/ e.token = "OUT_OF_USAGE_CREDITS"

\* this step records an error for the sport
Caught(s, e) == errors' = Append(errors, [sport |-> s, msg |-> e])

\* C14: withBackoff calls the fetch at most 1 + MAX_RETRIES_429 times for a
\* combination and always terminates; a further call is made only after the
\* call before failed with a rate-limit error; any other failure is rethrown
\* at once, and a rate-limit error is rethrown after the last allowed call.
C14_Backoff ==
    /\ [](\A s \in Sports : tasks[s].calls <= 1 + MAX_RETRIES_429)
    /\ [][\A s \in Sports :
            /\ (tasks'[s].calls > tasks[s].calls /\ tasks[s].calls > 0) =>
                  /\ tasks[s].pc = "backoff"
                  /\ RateLimitError(tasks[s].lastErr)
                  /\ tasks'[s].calls = tasks[s].calls + 1
            /\ (tasks[s].pc = "fetching" /\ tasks'[s].pc = "backoff") =>
                  /\ RateLimitError(tasks'[s].lastErr)
                  /\ tasks[s].calls <= MAX_RETRIES_429
                  /\ errors' = errors
            /\ \A e \in FetchErrors :
                  (tasks[s].pc = "fetching" /\ Caught(s, e)) =>
                      /\ tasks'[s].pc = "done"
                      /\ RateLimitError(e) => tasks[s].calls = 1 + MAX_RETRIES_429]_vars
    /\ \A s \in Sports : InBackoffLoop(s) ~> ~InBackoffLoop(s)

\* the last allowed call for a combination is pending, after a rate-limit
\* error that came with status 500
C14_Witness ==
    \E s \in Sports :
        /\ tasks[s].pc = "fetching"
        /\ tasks[s].calls = 1 + MAX_RETRIES_429
        /\ tasks[s].lastErr = Err(500, "EXCEEDED_FREQ_LIMIT")

\* a task of the run has failed with a quota error
QuotaFailed == \E i \in 1..Len(errors) : QuotaError(errors[i].msg)

\* the row of a task that started after the quota ran out
SkippedRow(s) == DetailRow(s, MARKETS[1], 0, 0, "skipped", "")

\* C15: once a task has failed with a quota error, every task of the batch
\* that starts afterwards calls no adapter and records a `skipped` row; the
\* tasks already started are left alone and finish on their own, and the
\* response reports stoppedEarly = true.
C15_FailFast ==
    /\ [][\A s \in Sports :
            /\ (QuotaFailed /\ tasks[s].pc = "queued"
                            /\ tasks'[s].pc # "queued") =>
                  /\ tasks'[s].pc = "done"
                  /\ details' = Append(details, SkippedRow(s))
                  /\ fetched' = fetched
                  /\ s \notin fetched
            /\ (~QuotaFailed /\ QuotaFailed') =>
                  \A t \in Sports :
                      tasks[t].pc \in {"fetching", "backoff", "ingesting"}
                      /\ tasks'[t].pc # "done" => tasks'[t] = tasks[t]]_vars
    /\ [](\A s \in fetched :
             \A i \in 1..Len(details) : details[i] # SkippedRow(s))
    /\ [](response.status = 200 /\ QuotaFailed => response.stoppedEarly)
    /\ \A s \in Sports :
          (tasks[s].pc \in {"fetching", "backoff", "ingesting"})
          ~> (tasks[s].pc = "done")

\* the response of a run in which one task failed with a quota error, a
\* task that had started before wrote its odds and the third was skipped
C15_Witness ==
    /\ response.status = 200
    /\ response.stoppedEarly
    /\ QuotaFailed
    /\ Len(errors) = 1
    /\ totalOdds > 0
    /\ \E s \in Sports : s \notin fetched /\ HasRow(s, "skipped")

\* what a task can raise: the errors of the fetch and of the write
TaskErrors == FetchErrors \cup {DbError}

\* the errors recorded for a sport
ErrorsOf(s) == { i \in 1..Len(errors) : errors[i].sport = s }

\* the detail rows of a sport with a note
RowsOf(s, note) ==
    { i \in 1..Len(details) :
        details[i].sport = s /\ details[i].note = note }

\* C16: when the fetch of a combination fails with a non-quota error or its
\* write fails, the error is recorded for that combination only; every
\* other combination that passed the TTL gate is still fetched and gets its
\* own outcome, in any completion order.
C16_Isolation ==
    /\ [][\A s \in Sports : \A e \in TaskErrors :
            (Caught(s, e) /\ ~QuotaError(e)) =>
                /\ details' = Append(details, DetailRow(s, MARKETS[1], 0, 0,
                                                        "error", e))
                /\ outOfCredits' = outOfCredits
                /\ fetched' = fetched
                /\ queue' = queue
                /\ \A t \in Sports \ {s} : tasks'[t] = tasks[t]]_vars
    /\ []((response.status = 200 /\ ~QuotaFailed) =>
            \A s \in Requested :
                tasks[s].pc = "done" =>
                    /\ s \in fetched
                    /\ \E i \in 1..Len(details) : details[i].sport = s
                    /\ Cardinality(ErrorsOf(s)) = Cardinality(RowsOf(s, "error"))
                    /\ Cardinality(ErrorsOf(s)) <= 1)

\* the response of a run in which one combination ran out of rate-limit
\* retries, the write of another failed and the third wrote its odds
C16_Witness ==
    /\ response.status = 200
    /\ ~QuotaFailed
    /\ Len(errors) = 2
    /\ \E i, j \in 1..2 : /\ RateLimitError(errors[i].msg)
                          /\ errors[j].msg = DbError
    /\ totalOdds > 0
    /\ fetched = Requested

-----------------------------------------------------------------------------
(* Properties of dry runs, the probe and the outcomes, under SpecBatch *)

\* the events the run received for the sport that passed the filters and
\* were not found unchanged
Changed(s) ==
    { e \in Elems(received[s]) :
        Shortlisted(e, fromT) /\ e \notin Elems(unchanged[s]) }

\* C17: in a dry run ingestNormalizedEvents is never called: the stored
\* events, odds and fingerprints stay as they were, totalOdds is 0, and a
\* combination with changed events is reported with note `skipped`.
C17_DryRun ==
    /\ [][req'.dryRun => db' = db]_vars
    /\ [](req.dryRun =>
            /\ totalOdds = 0
            /\ totalEvents = 0
            /\ \A s \in Sports :
                  /\ tasks[s].pc # "ingesting"
                  /\ passed[s] = <<>>
                  /\ (tasks[s].pc = "done" /\ Changed(s) # {}) =>
                        \E i \in 1..Len(details) :
                            details[i] = DetailRow(s, MARKETS[1],
                                                   Cardinality(Changed(s)), 0,
                                                   "skipped", ""))

\* a dry run has been served after odds were stored: it received an event
\* at a moved price, reported it as skipped and left the stored price
C17_Witness ==
    \E s \in Requested :
        /\ bpc = "idle"
        /\ response.status = 200
        /\ req.dryRun
        /\ received[s] = <<Fixture1(MovedLines)>>
        /\ details = <<DetailRow(s, MARKETS[1], 1, 0, "skipped", "")>>
        /\ db.odds # {}
        /\ \A o \in db.odds : o.decimal # Num(205)

\* C18: when the storage probe fails the batch ends at once with status 503
\* and ok = false: no adapter call, no stamp in the TTL map, no change of
\* the hash cache, so that no later batch is TTL-skipped because of it.
C18_Probe ==
    /\ [][(bpc' = "probe" \/ response'.status = 503) =>
            /\ lastFetchAtByCombo' = lastFetchAtByCombo
            /\ lastOddsHashByEvent' = lastOddsHashByEvent
            /\ db' = db]_vars
    /\ [](response.status = 503 =>
            /\ ~response.ok
            /\ bpc = "idle"
            /\ fetched = {}
            /\ details = <<>>
            /\ totalEvents = 0
            /\ totalOdds = 0
            /\ \A s \in Sports : tasks[s].pc = "none")
    /\ [](\A s \in Sports :
             (bpc = "running" /\ HasRow(s, "ttl-skip")) =>
                 clock - lastPass[s].gatedAt < req.ttlSeconds)

\* right after a run that ended with 503, a run with a TTL has fetched the
\* combination in a process that had stamped nothing before
C18_Witness ==
    /\ prevRun.status = 503
    /\ lastPass = [s \in Sports |->
                     IF s \in Requested
                     THEN [at |-> clock, gatedAt |-> clock]
                     ELSE [at |-> 0, gatedAt |-> 0]]
    /\ response.status = 200
    /\ req.ttlSeconds > 0
    /\ fetched = Requested
    /\ fetched # {}

\* the events the run received for the sport that passed the filters
ShortlistOf(s) == { e \in Elems(received[s]) : Shortlisted(e, fromT) }

\* the combination ended as ttl-skip, no-events, no-arb or, with every
\* shortlisted event found unchanged, as no-change
NoOp(s) ==
    \/ HasRow(s, "ttl-skip")
    \/ HasRow(s, "no-events")
    \/ HasRow(s, "no-arb")
    \/ /\ ShortlistOf(s) # {}
       /\ ShortlistOf(s) \subseteq Elems(unchanged[s])
       /\ HasRow(s, "no-change")

\* C19: a combination that ends as ttl-skip, no-events, no-arb or no-change
\* adds nothing to errors and writes nothing to the repository, and a batch
\* made only of such outcomes returns ok = true.
C19_NoOp ==
    /\ [](\A s \in Sports :
             NoOp(s) =>
                 /\ ErrorsOf(s) = {}
                 /\ tasks[s].pc \in {"none", "done"}
                 /\ passed[s] = <<>>
                 /\ \A i \in 1..Len(details) :
                       details[i].sport = s =>
                           details[i].odds = 0 /\ details[i].error = "")
    /\ [][db' # db =>
            \E s \in Sports : /\ tasks[s].pc = "ingesting"
                              /\ tasks'[s].pc = "done"
                              /\ ~NoOp(s)]_vars
    /\ []((response.status = 200 /\ \A s \in Requested : NoOp(s)) =>
             response.ok /\ errors = <<>> /\ totalOdds = 0)

\* the response of a run, served after odds were stored, whose one
\* combination ended as no-change
C19_Witness ==
    /\ response.status = 200
    /\ response.ok
    /\ db.odds # {}
    /\ \E s \in Requested :
          details = <<DetailRow(s, MARKETS[1], 1, 0, "no-change", "")>>
    /\ \A s \in Requested : NoOp(s)

Stored(e) == <<e.sport, e.league, e.teamA, e.teamB, e.startsAt>> \in db.events

\* C29: a hash is remembered for an event only by a successful write: an
\* event a run reports as `no-change` has been written to storage before,
\* and a persisted fingerprint belongs to a stored event.
C29_CommitOnWrite ==
    /\ \A s \in Sports : \A e \in Elems(unchanged[s]) : Stored(e)
    /\ \A fp \in db.fingerprints :
          \E k \in db.events :
              fp[1] = <<k[3], k[4], k[5], k[2], k[1], "ML">>
-----------------------------------------------------------------------------
(* Properties of the query's filters, under SpecFresh *)

\* a query has been answered in the current state
Asked == page # NoPage

\* the stored rows of the moneyline market of an event
MoneylineRows(ev) == { o \in db.odds : o.marketId = <<ev, "ML">> }

\* last seen longer ago than the window of the answered query
Stale(o) == page.q.now - lastSeenAt[OddsKey(o)] > page.q.freshMins * 60

\* quoted by a book of the allow-list of the answered query, or no list given
Listed(o) ==
    \/ page.q.books = <<>>
    \/ \E i \in 1..Len(page.q.books) :
          ToLowerCase(page.q.books[i]) = ToLowerCase(o.sportsbook)

\* the row a returned leg was taken from
IsRowOf(o, l) ==
    /\ o.sportsbook = l.book
    /\ o.outcome = l.outcome
    /\ o.decimal = l.decimal

\* the best price among rows
TopPrice(rows) ==
    CHOOSE p \in { o.decimal[2] : o \in rows } :
        \A o \in rows : o.decimal[2] <= p

\* roi = 1/k - 1 of prices of a and b hundredths is at least m, without
\* division
RoiAtLeast(a, b, m) == (a * b - 100 * (a + b)) * m.d >= m.n * 100 * (a + b)

\* the rows of an outcome that are fresh and listed
Usable(ev, outcome) ==
    { o \in MoneylineRows(ev) :
        o.outcome = outcome /\ ~Stale(o) /\ Listed(o) /\ ValidPrice(o.decimal) }

\* C21: every leg of a returned opportunity is a stored quote seen within
\* the freshness window, and a stale quote suppresses nothing: when the best
\* fresh listed prices of the two outcomes of a queried event come from
\* different books and form a pair with the asked roi, that pair is in the
\* result.
C21_FreshOnly ==
    Asked =>
        /\ \A i \in 1..Len(page.results) :
              \A l \in { page.results[i].a, page.results[i].b } :
                  \E o \in MoneylineRows(page.results[i].event) :
                      IsRowOf(o, l) /\ ~Stale(o)
        /\ \A j \in 1..Len(page.events) :
              LET ev == page.events[j]
                  rowsA == Usable(ev, "A")
                  rowsB == Usable(ev, "B")
              IN  (/\ rowsA # {} /\ rowsB # {}
                   /\ KBelowOne(TopPrice(rowsA), TopPrice(rowsB))
                   /\ RoiAtLeast(TopPrice(rowsA), TopPrice(rowsB),
                                 page.q.minRoi)
                   /\ \E a \in rowsA, b \in rowsB :
                         /\ a.decimal[2] = TopPrice(rowsA)
                         /\ b.decimal[2] = TopPrice(rowsB)
                         /\ a.sportsbook # b.sportsbook)
                  => \E i \in 1..Len(page.results) :
                        /\ page.results[i].event = ev
                        /\ page.results[i].a.decimal[2] = TopPrice(rowsA)
                        /\ page.results[i].b.decimal[2] = TopPrice(rowsB)

\* an opportunity is returned while a stale quote of the same market and
\* outcome has a higher price than the returned leg
C21_Witness ==
    /\ Asked
    /\ \E i \in 1..Len(page.opportunities) :
          \E o \in MoneylineRows(page.opportunities[i].event) :
              /\ Stale(o) /\ Listed(o)
              /\ o.outcome = "A"
              /\ o.decimal[2] > page.opportunities[i].a.decimal[2]

\* the tables without the rows of the books outside the answered query's list
ListedTables == [db EXCEPT !.odds = { o \in @ : Listed(o) }]

\* C22: with a book allow-list, no leg of a returned opportunity is quoted by
\* a book outside the list, and the result is the one the query computes,
\* without a list, on the tables holding the listed books' rows alone.
C22_AllowList ==
    (Asked /\ page.q.books # <<>>) =>
        /\ \A i \in 1..Len(page.results) :
              \A l \in { page.results[i].a, page.results[i].b } :
                  \E j \in 1..Len(page.q.books) :
                      ToLowerCase(page.q.books[j]) = ToLowerCase(l.book)
        /\ page.results =
              Answer(ListedTables, lastSeenAt,
                     [page.q EXCEPT !.books = <<>>]).results

\* a list is given and an opportunity between listed books is returned while
\* a fresh quote of a book outside the list beats its A leg
C22_Witness ==
    /\ Asked
    /\ page.q.books # <<>>
    /\ \E i \in 1..Len(page.opportunities) :
          \E o \in MoneylineRows(page.opportunities[i].event) :
              /\ ~Listed(o) /\ ~Stale(o)
              /\ o.outcome = "A"
              /\ o.decimal[2] > page.opportunities[i].a.decimal[2]

\* the matcher's pairs on the fresh listed quotes of a queried event
MatcherPairs(ev) ==
    LET rows == SetToSeq({ o \in MoneylineRows(ev) : ~Stale(o) /\ Listed(o) })
    IN  findTwoWayArbs([i \in 1..Len(rows) |-> OddsLeg(rows[i], "ML")], 1)

\* C23: every returned opportunity has a roi 1/k - 1 of at least minRoi, every
\* matcher pair of a queried event with roi >= minRoi is in the unpaginated
\* result and no other pair is, and the result and its first page are
\* ordered by the returned roi, descending.
C23_MinRoi ==
    Asked =>
        /\ \A i \in 1..Len(page.results) :
              /\ RoiAtLeast(page.results[i].a.decimal[2],
                            page.results[i].b.decimal[2], page.q.minRoi)
              /\ \E j \in 1..Len(page.events) :
                    /\ page.events[j] = page.results[i].event
                    /\ \E n \in 1..Len(MatcherPairs(page.events[j])) :
                          LET p == MatcherPairs(page.events[j])[n]
                          IN  p.a = page.results[i].a /\ p.b = page.results[i].b
        /\ \A j \in 1..Len(page.events) :
              \A n \in 1..Len(MatcherPairs(page.events[j])) :
                  LET p == MatcherPairs(page.events[j])[n]
                  IN  RoiAtLeast(p.a.decimal[2], p.b.decimal[2], page.q.minRoi)
                      => \E i \in 1..Len(page.results) :
                            /\ page.results[i].event = page.events[j]
                            /\ page.results[i].a = p.a
                            /\ page.results[i].b = p.b
        /\ \A i, j \in 1..Len(page.results) :
              i < j => ~RLess(page.results[i].roi, page.results[j].roi)
        /\ page.opportunities =
              SubSeq(page.results, 1,
                     IF Len(page.results) < 25 THEN Len(page.results) ELSE 25)

\* a query with minRoi 0.03 over two events: the matcher pair of one is
\* returned, the pair of the other (roi below 0.03) is not
C23_Witness ==
    /\ Asked
    /\ page.q.minRoi = Rat(3, 100)
    /\ Len(page.results) = 1
    /\ \E j \in 1..Len(page.events) :
          /\ page.events[j] # page.results[1].event
          /\ MatcherPairs(page.events[j]) # <<>>

\* a query returning two opportunities of different roi
C23_WitnessOrder ==
    /\ Asked
    /\ Len(page.opportunities) = 2
    /\ RLess(page.opportunities[2].roi, page.opportunities[1].roi)

\* the unique key a quote of an event is stored under
QuoteKey(e, l) ==
    <<<<<<e.sport, e.league, e.teamA, e.teamB, e.startsAt>>, l.market>>,
      l.book, l.outcome, IF l.market = "ML" THEN Null ELSE l.line>>

\* the last quote of its key among the lines of an event
LastOfKey(e, n) ==
    \A k \in (n + 1)..Len(e.lines) : QuoteKey(e, e.lines[k]) # QuoteKey(e, e.lines[n])

-----------------------------------------------------------------------------
(* Properties of the normalization, under SpecAdapter *)

\* the lines of the events fetchTheOddsApi returned
NormalizedLines ==
    UNION { { normalized[i].lines[n] : n \in 1..Len(normalized[i].lines) } :
              i \in 1..Len(normalized) }

\* C24: no line of a NormalizedEvent returned by fetchTheOddsApi and no
\* stored odds row has a price that is not a finite number above 1.0.
C24_ValidPrices ==
    /\ \A l \in NormalizedLines : ValidPrice(l.decimal)
    /\ \A o \in db.odds : ValidPrice(o.decimal)

\* C25: every SPREAD or TOTAL line of a NormalizedEvent returned by
\* fetchTheOddsApi and every stored SPREAD or TOTAL row carries a numeric
\* line.
C25_NumericLines ==
    /\ \A l \in NormalizedLines : l.market # "ML" => IsNum(l.line)
    /\ \A o \in db.odds : o.marketId[2] # "ML" => IsNum(o.line)
-----------------------------------------------------------------------------
(* Properties of the window filter, under SpecWindow *)

\* the window of the run being served: from its start for windowHours
InWindow(e) ==
    /\ fromT <= e.startsAt
    /\ e.startsAt <= fromT + DEFAULT_TIME_WINDOW_HOURS * 60 * 60

\* C27: every event a run passes to the repository write starts inside the
\* run's window, from <= t <= to with from the start of the run and
\* to = from + windowHours, whatever the provider returned.
C27_WindowFilter ==
    \A s \in Sports :
        /\ \A e \in Elems(passed[s]) : InWindow(e) /\ e \in Elems(received[s])
        /\ tasks[s].pc = "ingesting" =>
              /\ tasks[s].toIngest = passed[s]
              /\ \A e \in Elems(received[s]) :
                    (InWindow(e) /\ e \notin Elems(unchanged[s]))
                        => e \in Elems(passed[s])

\* the provider returned an event that starts after the window and one that
\* starts at its end: the second alone is passed to the repository write
C27_Witness ==
    \E s \in Sports :
        /\ tasks[s].pc = "ingesting"
        /\ Len(passed[s]) = 1
        /\ passed[s][1].startsAt = fromT + WindowSeconds
        /\ \E e \in Elems(received[s]) : e.startsAt > fromT + WindowSeconds

\* the provider returned an event that has started before the run
C27_WitnessEarly ==
    \E s \in Sports :
        /\ tasks[s].pc = "ingesting"
        /\ \E e \in Elems(received[s]) : e.startsAt < fromT
-----------------------------------------------------------------------------
(* Properties of the change-detection hashes, under SpecHash *)

\* the moneyline prices above 1.0 quoted for an outcome, in hundredths
MoneylinePrices(e, outcome) ==
    { e.lines[n].decimal[2] :
        n \in { n \in 1..Len(e.lines) :
                  /\ e.lines[n].market = "ML"
                  /\ e.lines[n].outcome = outcome
                  /\ ValidPrice(e.lines[n].decimal) } }

\* the best of them, 0 when there is none
BestMoneyline(e, outcome) ==
    IF MoneylinePrices(e, outcome) = {} THEN 0
    ELSE CHOOSE p \in MoneylinePrices(e, outcome) :
             \A q \in MoneylinePrices(e, outcome) : q <= p

\* the two fetches have the same best moneyline prices
SameBest ==
    /\ BestMoneyline(hashed.events[1], "A") = BestMoneyline(hashed.events[2], "A")
    /\ BestMoneyline(hashed.events[1], "B") = BestMoneyline(hashed.events[2], "B")

\* C30: two fetches of an event get equal hashes, from the repository
\* write's computeBestPriceHash and from the scheduler's
\* computeEventOddsHash, exactly when their best moneyline prices above 1.0
\* for A and for B are equal.
C30_HashOfBest ==
    hashed # NoHashes =>
        /\ (hashed.best[1] = hashed.best[2]) <=> SameBest
        /\ (hashed.scheduler[1] = hashed.scheduler[2]) <=> SameBest
-----------------------------------------------------------------------------
(* Properties of concurrent writers, under SpecRace *)

\* C28: whatever the interleaving of the calls for one fixture, storage
\* holds one Event row for its natural key once a call has returned, never
\* more, and at most one Market row per event and market type.
C28_OneEventRow ==
    /\ Cardinality(rowsById.events) <= 1
    /\ (\E w \in 1..MaxWriters : writers[w].pc = "done")
          => Cardinality(rowsById.events) = 1
    /\ \A m1, m2 \in rowsById.markets :
          (m1.eventId = m2.eventId /\ m1.type = m2.type) => m1 = m2
-----------------------------------------------------------------------------
(* Properties of the detail rows of a batch response *)

\* the positions of the detail rows of a sport's combination
DetailRowsOf(s) ==
    { i \in 1..Len(details) :
        details[i].sport = s /\ details[i].market = MARKETS[1] }

\* the notes a detail row can carry; "" stands for a row without note
RowNotes ==
    {"ttl-skip", "skipped", "no-events", "no-arb", "no-change", "error", ""}

\* the sum of a field over the rows without a note, from position i on
RECURSIVE PlainSum(_, _)
PlainSum(i, field) ==
    IF i > Len(details) THEN 0
    ELSE (IF details[i].note = "" THEN details[i][field] ELSE 0)
         + PlainSum(i + 1, field)

\* C31: in every response of a batch that passed the probe, each requested
\* combination has exactly one detail row, every row carries one of the
\* seven outcomes, and totalEvents and totalOdds are the sums of events and
\* odds over the rows without a note.
C31_OneRowEach ==
    response.status = 200 =>
        /\ \A s \in Requested : Cardinality(DetailRowsOf(s)) = 1
        /\ \A i \in 1..Len(details) :
              details[i].note \in RowNotes /\ details[i].sport \in Requested
        /\ totalEvents = PlainSum(1, "events")
        /\ totalOdds = PlainSum(1, "odds")
-----------------------------------------------------------------------------
(* Properties of the fingerprint faults, checked under SpecFaults *)

\* no later quote of the list just ingested has the key of quote n of event i
LastWrite(i, n) ==
    \A j \in i..Len(ingested') :
        \A k \in 1..Len(ingested'[j].lines) :
            (j > i \/ k > n) =>
                QuoteKey(ingested'[j], ingested'[j].lines[k])
                    # QuoteKey(ingested'[i], ingested'[i].lines[n])

\* the tables after the call hold the quotes of event i of the list
QuotesWritten(i) ==
    \A n \in 1..Len(ingested'[i].lines) :
        \E r \in db'.odds :
            /\ OddsKey(r) = QuoteKey(ingested'[i], ingested'[i].lines[n])
            /\ LastWrite(i, n) => r.decimal = ingested'[i].lines[n].decimal

\* the fingerprint stored before the call is the one of event i of the list
StoredUnchanged(i) ==
    <<fingerprintKey(ingested'[i]), computeBestPriceHash(ingested'[i])>>
        \in db.fingerprints

RECURSIVE LinesFrom(_, _)
LinesFrom(events, i) ==
    IF i > Len(events) THEN 0
    ELSE Len(events[i].lines) + LinesFrom(events, i + 1)

\* C34: a call whose fingerprint lookup raises writes every event of its
\* list and counts every one; a call whose fingerprint upserts raise leaves
\* the odds of every changed event written, counts the event in
\* eventsTouched and stores no fingerprint; both return their counts to the
\* caller.
C34_FaultsSwallowed ==
    [][ /\ (ipc' = "called" /\ ~faults'.lookupOk) =>
              /\ ingestResult'.eventsTouched = Len(ingested')
              /\ ingestResult'.oddsWritten = LinesFrom(ingested', 1)
              /\ \A i \in 1..Len(ingested') : QuotesWritten(i)
        /\ (ipc' = "called" /\ faults'.lookupOk /\ ~faults'.upsertOk) =>
              /\ db'.fingerprints = db.fingerprints
              /\ ingestResult'.eventsTouched =
                    Cardinality({ i \in 1..Len(ingested') : ~StoredUnchanged(i) })
              /\ \A i \in 1..Len(ingested') :
                    ~StoredUnchanged(i) => QuotesWritten(i)
      ]_vars

\* a call with a working fingerprint store was followed by a call with the
\* same two events whose lookup and upserts raised: it wrote both again
C34_Witness ==
    /\ repeated
    /\ ~faults.lookupOk
    /\ ~faults.upsertOk
    /\ Len(ingested) = 2
    /\ fingerprintKey(ingested[1]) # fingerprintKey(ingested[2])
    /\ ingestResult.eventsTouched = 2
    /\ ingestResult.oddsWritten > 0

-----------------------------------------------------------------------------
(* Properties of dry runs and the change-detection state, under SpecBatch *)

\* C35: a dry run leaves the change-detection state as it was (the hashes
\* remembered per event and the persisted fingerprints), so that a non-dry
\* run after it never reports `no-change` for an event whose fixture was
\* never written.
C35_DryRunFrame ==
    [][ /\ req'.dryRun =>
              /\ lastOddsHashByEvent' = lastOddsHashByEvent
              /\ db'.fingerprints = db.fingerprints
        /\ ~req'.dryRun =>
              \A s \in Sports : \A e \in Elems(unchanged'[s]) :
                  <<e.sport, e.league, e.teamA, e.teamB, e.startsAt>>
                      \in db'.events
      ]_vars

-----------------------------------------------------------------------------
(* Properties of the scheduler's filter, checked under SpecPrecheck *)

\* C33: the scheduler's filter is never stricter than the matcher: an event
\* inside the window in whose quotes findTwoWayArbs finds at least one pair,
\* of whatever market, passes hasH2HArb and is shortlisted.
C33_NeverStricter ==
    checked.pairs # <<>> => checked.shortlisted

\* the same for the pairs of the MONEYLINE and SPREAD markets
TeamMarketsPass ==
    (\E i \in 1..Len(checked.pairs) : checked.pairs[i].market # "TOTAL")
        => checked.shortlisted
-----------------------------------------------------------------------------
(* Properties of the TTL gate, checked under SpecGate *)

\* C36: a combination is reported `ttl-skip` only when the adapter was
\* called for it less than ttlSeconds earlier: a combination whose task was
\* skipped for quota exhaustion, or never reached the adapter, is not
\* TTL-skipped by the next run.
C36_SkipOnlyAfterCall ==
    \A s \in Sports :
        HasRow(s, "ttl-skip") =>
            /\ calledAt[s] > 0
            /\ clock - calledAt[s] < req.ttlSeconds
-----------------------------------------------------------------------------
(* Properties of overlapping runs, checked under SpecOverlap *)

\* both requests have passed the TTL gate and neither has been answered
Overlapping == \A r \in RunIds : runs[r].pc = "running"

\* the combinations both requests name
AskedByBoth ==
    { s \in Sports :
        \A r \in RunIds : \E i \in 1..Len(runs[r].sports) : runs[r].sports[i] = s }

\* at most one of the two runs queued a fetch for the combination and the
\* other reported ttl-skip
OneFetch(s) ==
    /\ Cardinality({ r \in RunIds : s \in runs[r].queued }) <= 1
    /\ \E r \in RunIds : s \in runs[r].skipped

\* the run that passed the gate last did so less than its ttlSeconds after
\* the other
GatesWithinTtl ==
    \E a, b \in RunIds :
        /\ a # b
        /\ runs[a].gateAt <= runs[b].gateAt
        /\ runs[b].gateAt - runs[a].gateAt < runs[b].ttlSeconds

\* C37 as stated: when two batch runs with ttlSeconds > 0 overlap in one
\* process, for each combination at most one of them queues a fetch and the
\* other reports `ttl-skip`.
C37_Original ==
    Overlapping => \A s \in AskedByBoth : OneFetch(s)

\* C37 amended: the same, for two overlapping runs of which the later one
\* passes the TTL gate less than its ttlSeconds after the earlier one.
C37_OneFetch ==
    (Overlapping /\ GatesWithinTtl) => \A s \in AskedByBoth : OneFetch(s)

\* the second request passed the gate a tick after the first, with a TTL of
\* two ticks: the first queued the basketball fetch, the second skipped it
C37_Witness ==
    /\ Overlapping
    /\ GatesWithinTtl
    /\ runs[1].gateAt < runs[2].gateAt
    /\ "basketball_nba" \in runs[1].queued
    /\ "basketball_nba" \in runs[2].skipped
-----------------------------------------------------------------------------
(* Properties of the rate limiter, checked under SpecLimit *)

RECURSIVE SumOf(_)
SumOf(counts) ==
    IF counts = {} THEN 0
    ELSE LET c == CHOOSE c \in counts : TRUE
         IN  c.n + SumOf(counts \ {c})

\* the number of requests of the client to the path that reached the route
\* at a time from `from` on and before `from` + window
ReachedIn(ip, path, from, window) ==
    SumOf({ c \in limiter.reached :
              /\ c.ip = ip
              /\ c.path = path
              /\ c.at >= from
              /\ c.at < from + window })

\* no more than limit requests of a client to the path reached the route in
\* any interval of the length of the window
AtMost(path, limit, window) ==
    \A c \in limiter.reached :
        ReachedIn(c.ip, path, c.at, window) <= limit

\* the answer to a refused request
Refusal ==
    limiter.last.status = 429 =>
        /\ limiter.last.error = "rate_limited"
        /\ ~limiter.last.next

\* C32: in production, for each client the limiter lets through at most 30
\* requests to /api/opportunities in any 60 seconds and at most 1 request
\* to /api/ingest-odds in any 15 seconds; a refused request is answered with
\* 429 and error `rate_limited` and does not reach the route.
C32_RateLimit ==
    /\ AtMost("/api/opportunities", 30, 60)
    /\ AtMost("/api/ingest-odds", 1, 15)
    /\ Refusal

\* the part of C32 about /api/ingest-odds and the refusal
IngestLimited ==
    /\ AtMost("/api/ingest-odds", 1, 15)
    /\ Refusal
-----------------------------------------------------------------------------
(* Properties of the response cache, checked under SpecCache *)

\* the two requests have the same effective filters
SameFilters(q1, q2) ==
    /\ bookWhitelist(q1.books) = bookWhitelist(q2.books)
    /\ q1.minRoi = q2.minRoi
    /\ FreshSeconds(q1.freshMins) = FreshSeconds(q2.freshMins)
    /\ q1.demo = q2.demo

\* the last request got a stored response
Served == cache.last.hit

\* a stored response goes to requests with the same keyed filters within
\* the 20 seconds, and a request with cache=0 neither reads nor writes
KeyedAndFresh ==
    /\ Served =>
          /\ ~cache.last.q.skip
          /\ cache.last.q.minRoi = cache.last.data.q.minRoi
          /\ bookWhitelist(cache.last.q.books)
                = bookWhitelist(cache.last.data.q.books)
          /\ cache.last.q.now - cache.last.data.q.now < 20
    /\ \A c \in cache.entries : ~c.data.q.skip

\* C38: the cache serves a stored response only to a request with the
\* effective filters of the request that produced it, freshness window and
\* demo mode included, and only within 20 seconds of its computation; a
\* request with cache=0 neither reads nor writes the cache.
C38_CacheSafety ==
    /\ KeyedAndFresh
    /\ Served => SameFilters(cache.last.q, cache.last.data.q)
====
